---- MODULE Spec2Model ----
(***************************************************************************)
(* fly-tunnel-operator: the Service reconciler (internal/controller) and   *)
(* the tunnel lifecycle Manager (internal/tunnel) as a state machine over  *)
(* the cluster API objects and the remote provider's resources.            *)
(*                                                                         *)
(* Strings that the code inspects character by character (names) are       *)
(* sequences of one-character strings; identifiers handed out by the       *)
(* remote provider are positive numbers and 0 stands for the empty string. *)
(***************************************************************************)
EXTENDS Integers, Sequences, FiniteSets, TLC

----------------------------------------------------------------------------
(* Bounds of the model *)

\* injected call failures (remote provider or cluster API) per behaviour
MaxFailures == 1
\* operations of the user on the Service objects per behaviour
MaxUserOps == 2
\* readings of the wall clock (time.Now) distinguish 0..MaxClock
MaxClock == 1

----------------------------------------------------------------------------
(* Program constants *)

maxLabelLen == 63
DefaultServerPort == 7000
DefaultLoadBalancerClass == "fly-tunnel-operator.dev/lb"

\* operator-level configuration (tunnel.Config and the reconciler's class)
Config ==
    [FlyRegion |-> "syd", FlyMachineSize |-> "shared-cpu-1x",
     FrpsImage |-> "frps-image", FrpcImage |-> "frpc-image",
     loadBalancerClass |-> DefaultLoadBalancerClass]

----------------------------------------------------------------------------
(* The Service identities of the model: namespace and name *)

\* d/a, a-b/c and a/b-c
Svcs == {"s1", "s2", "s3"}
Namespace ==
    [o \in Svcs |-> CASE o = "s1" -> <<"d">>
                     [] o = "s2" -> <<"a", "-", "b">>
                     [] o = "s3" -> <<"a">>]
Name ==
    [o \in Svcs |-> CASE o = "s1" -> <<"a">>
                     [] o = "s2" -> <<"c">>
                     [] o = "s3" -> <<"b", "-", "c">>]

----------------------------------------------------------------------------
(* internal/tunnel/name.go *)

UpperChars == <<"A","B","C","D","E","F","G","H","I","J","K","L","M",
                "N","O","P","Q","R","S","T","U","V","W","X","Y","Z">>
LowerChars == <<"a","b","c","d","e","f","g","h","i","j","k","l","m",
                "n","o","p","q","r","s","t","u","v","w","x","y","z">>
DigitChars == <<"0","1","2","3","4","5","6","7","8","9">>
HexChars == <<"0","1","2","3","4","5","6","7","8","9","a","b","c","d","e","f">>

Range(s) == {s[i] : i \in 1..Len(s)}

\* strings.ToLower, one character
ToLowerChar(c) ==
    IF \E i \in 1..Len(UpperChars) : UpperChars[i] = c
    THEN LowerChars[CHOOSE i \in 1..Len(UpperChars) : UpperChars[i] = c]
    ELSE c

\* the character test of sanitizeName's loop
IsNameChar(c) == c \in Range(LowerChars) \cup Range(DigitChars) \cup {"-"}

\* the greatest of a non-empty set of numbers
Greatest(S) == CHOOSE j \in S : \A k \in S : k <= j

\* i counted from the last of the places in before, from 0 when there is none
OffsetAfter(before, i) == IF before = {} THEN i ELSE i - Greatest(before)

\* the place of the dash s[i] in its run of dashes, counted from 1
DashOffset(s, i) == OffsetAfter({j \in 1..(i - 1) : s[j] # "-"}, i)

\* the characters of s[lo..hi] that one pass of ReplaceAll keeps
RECURSIVE ReplacedBetween(_, _, _)
ReplacedBetween(s, lo, hi) ==
    IF lo > hi THEN <<>>
    ELSE IF lo = hi
         THEN IF s[lo] # "-" \/ DashOffset(s, lo) % 2 = 1 THEN <<s[lo]>> ELSE <<>>
         ELSE LET mid == (lo + hi) \div 2
              IN  ReplacedBetween(s, lo, mid) \o ReplacedBetween(s, mid + 1, hi)

\* strings.ReplaceAll(s, "--", "-"): one left-to-right pass over
\* non-overlapping occurrences, which keeps of every run of dashes the first,
\* the third, the fifth, ...
ReplaceAllDashDash(s) == ReplacedBetween(s, 1, Len(s))

ContainsDashDash(s) == \E i \in 1..(Len(s) - 1) : s[i] = "-" /\ s[i + 1] = "-"

\* for strings.Contains(sanitized, "--") { ReplaceAll }
RECURSIVE CollapseDashes(_)
CollapseDashes(s) ==
    IF ContainsDashDash(s) THEN CollapseDashes(ReplaceAllDashDash(s)) ELSE s

RECURSIVE TrimLeftDash(_)
TrimLeftDash(s) ==
    IF Len(s) > 0 /\ s[1] = "-" THEN TrimLeftDash(Tail(s)) ELSE s

RECURSIVE TrimRightDash(_)
TrimRightDash(s) ==
    IF Len(s) > 0 /\ s[Len(s)] = "-"
    THEN TrimRightDash(SubSeq(s, 1, Len(s) - 1)) ELSE s

\* a Trim that forgets the right end
TrimDashLeftOnly(s) == TrimLeftDash(s)

\* strings.Trim(s, "-")
TrimDash(s) == TrimRightDash(TrimLeftDash(s))

\* The position of a character in the model's alphabet (its code).
CharCode(c) ==
    IF \E i \in 1..26 : LowerChars[i] = c
    THEN CHOOSE i \in 1..26 : LowerChars[i] = c
    ELSE IF \E i \in 1..10 : DigitChars[i] = c
         THEN 26 + (CHOOSE i \in 1..10 : DigitChars[i] = c)
         ELSE IF c = "-" THEN 37 ELSE 38

\* Two bytes of the digest of a string, as a 16-bit number: a deterministic
\* function of the whole string with a fixed width (of the lower-cased
\* string, before it is sanitized and truncated).  The string is digested
\* left to right, h being the digest of what came before s; the left half is
\* digested before the right one is entered.
RECURSIVE DigestHalf(_, _, _)
DigestHalf(s, h, mult) ==
    IF Len(s) = 0 THEN h
    ELSE IF Len(s) = 1 THEN (h * mult + CharCode(s[1])) % 65536
    ELSE LET mid == Len(s) \div 2
             left == DigestHalf(SubSeq(s, 1, mid), h, mult)
         IN  IF left >= 0 THEN DigestHalf(SubSeq(s, mid + 1, Len(s)), left, mult)
             ELSE 0

\* hex.EncodeToString: the k hex characters of a number
RECURSIVE HexDigits(_, _)
HexDigits(n, k) ==
    IF k = 0 THEN <<>>
    ELSE HexDigits(n \div 16, k - 1) \o <<HexChars[(n % 16) + 1]>>

\* name = strings.ToLower(name)
lowered(name0) == [i \in 1..Len(name0) |-> ToLowerChar(name0[i])]

\* the loop over the runes of name: what is no name character becomes a dash
mapped(name) ==
    [i \in 1..Len(name) |-> IF IsNameChar(name[i]) THEN name[i] ELSE "-"]

\* the value of sanitized when sanitizeName compares its length with
\* maxLabelLen: mapped to the name characters, collapsed and trimmed
sanitized(name0) == TrimDash(CollapseDashes(mapped(lowered(name0))))

\* hex.EncodeToString(hash[:4]) for the digest of name
hashOf(name) ==
    HexDigits(DigestHalf(name, 7, 31), 4) \o HexDigits(DigestHalf(name, 11, 37), 4)

\* the suffix of a name that is too long: of the digest of the lower-cased name
hashSuffix(name0) == hashOf(lowered(name0))

\* truncated + "-" + suffix, truncated leaving room for the dash and the suffix
truncatedWithSuffix(san, suffix) ==
    TrimRightDash(SubSeq(san, 1, maxLabelLen - Len(suffix) - 1))
    \o <<"-">> \o suffix

\* sanitizeName from the length test on, san being the sanitized name
sanitizedOrTruncated(san, name0) ==
    IF Len(san) <= maxLabelLen THEN san
    ELSE truncatedWithSuffix(san, hashSuffix(name0))

sanitizeName(name0) == sanitizedOrTruncated(sanitized(name0), name0)

\* fmt.Sprintf("frp-%s-%s", namespace, name), sanitized
tunnelNameFor(namespace, name) ==
    sanitizeName(<<"f","r","p","-">> \o namespace \o <<"-">> \o name)

\* fmt.Sprintf("fly-tunnel-%s-%s", namespace, name), sanitized
flyAppNameFor(namespace, name) ==
    sanitizeName(<<"f","l","y","-","t","u","n","n","e","l","-">>
                 \o namespace \o <<"-">> \o name)

\* fmt.Sprintf("frpc-%s-%s", namespace, name), sanitized
frpcDeploymentNameFor(namespace, name) ==
    sanitizeName(<<"f","r","p","c","-">> \o namespace \o <<"-">> \o name)

tunnelNameForService(o) == tunnelNameFor(Namespace[o], Name[o])

flyAppNameForService(o) == flyAppNameFor(Namespace[o], Name[o])

frpcDeploymentNameForService(o) == frpcDeploymentNameFor(Namespace[o], Name[o])

\* the derived names of the model's Services, computed once
TunnelNameOf == [o \in Svcs |-> tunnelNameForService(o)]
FlyAppNameOf == [o \in Svcs |-> flyAppNameForService(o)]
FrpcDeploymentNameOf == [o \in Svcs |-> frpcDeploymentNameForService(o)]

AppNames == {FlyAppNameOf[o] : o \in Svcs}
DeployNames == {FrpcDeploymentNameOf[o] : o \in Svcs}

----------------------------------------------------------------------------
(* The frpc container's resource requirements (frpcResources) *)

AnnotationFrpcCPURequest == "fly-tunnel-operator.dev/frpc-cpu-request"
AnnotationFrpcCPULimit == "fly-tunnel-operator.dev/frpc-cpu-limit"
AnnotationFrpcMemoryRequest == "fly-tunnel-operator.dev/frpc-memory-request"
AnnotationFrpcMemoryLimit == "fly-tunnel-operator.dev/frpc-memory-limit"

\* a slot of a ResourceList that has no entry
NoQuantity == [n |-> 0, unit |-> "none"]

\* resource.ParseQuantity on the values of the model: a count of thousandths
\* ("m"), of units, or of 2^20 units ("Mi"); whole units come back as
\* thousandths, so "1" and "1000m" are one quantity
ParseQuantity(v) ==
    CASE v = "10m" -> [err |-> FALSE, q |-> [n |-> 10, unit |-> "m"]]
      [] v = "50m" -> [err |-> FALSE, q |-> [n |-> 50, unit |-> "m"]]
      [] v = "1000m" -> [err |-> FALSE, q |-> [n |-> 1000, unit |-> "m"]]
      [] v = "1" -> [err |-> FALSE, q |-> [n |-> 1000, unit |-> "m"]]
      [] v = "32Mi" -> [err |-> FALSE, q |-> [n |-> 32, unit |-> "Mi"]]
      [] v = "64Mi" -> [err |-> FALSE, q |-> [n |-> 64, unit |-> "Mi"]]
      [] v = "128Mi" -> [err |-> FALSE, q |-> [n |-> 128, unit |-> "Mi"]]
      [] OTHER -> [err |-> TRUE, q |-> NoQuantity]

\* resource.MustParse
MustParse(v) == ParseQuantity(v).q

defaultFrpcResources ==
    [Requests |-> [cpu |-> MustParse("10m"), memory |-> MustParse("32Mi")],
     Limits |-> [cpu |-> NoQuantity, memory |-> MustParse("128Mi")]]

\* each resource annotation, with the list and the resource it sets
resourceAnnotationOverrides ==
    << [annotation |-> AnnotationFrpcCPURequest, resourceName |-> "cpu",
        target |-> "Requests"],
       [annotation |-> AnnotationFrpcCPULimit, resourceName |-> "cpu",
        target |-> "Limits"],
       [annotation |-> AnnotationFrpcMemoryRequest, resourceName |-> "memory",
        target |-> "Requests"],
       [annotation |-> AnnotationFrpcMemoryLimit, resourceName |-> "memory",
        target |-> "Limits"] >>

\* o.target(&res)[o.resourceName] = q
SetQuantity(r, o, q) ==
    [r EXCEPT ![o.target] = [@ EXCEPT ![o.resourceName] = q]]

\* an unparsable value is passed over, as an empty one is
RECURSIVE frpcResourcesFromSkipInvalid(_, _, _)
frpcResourcesFromSkipInvalid(annotations, i, req) ==
    IF i > Len(resourceAnnotationOverrides)
    THEN [res |-> req, err |-> FALSE, annotation |-> "", value |-> ""]
    ELSE LET o == resourceAnnotationOverrides[i]
         IN  IF o.annotation \notin DOMAIN annotations
                \/ annotations[o.annotation] = ""
                \/ ParseQuantity(annotations[o.annotation]).err
             THEN frpcResourcesFromSkipInvalid(annotations, i + 1, req)
             ELSE frpcResourcesFromSkipInvalid(annotations, i + 1,
                      SetQuantity(req, o, ParseQuantity(annotations[o.annotation]).q))

\* the loop of frpcResources from the i-th override on; req is the copy of
\* the defaults (res) as filled so far, which is returned with the error too
RECURSIVE frpcResourcesFrom(_, _, _)
frpcResourcesFrom(annotations, i, req) ==
    IF i > Len(resourceAnnotationOverrides)
    THEN [res |-> req, err |-> FALSE, annotation |-> "", value |-> ""]
    ELSE LET o == resourceAnnotationOverrides[i]
         IN  IF o.annotation \notin DOMAIN annotations
                \/ annotations[o.annotation] = ""
             THEN frpcResourcesFrom(annotations, i + 1, req)
             ELSE LET p == ParseQuantity(annotations[o.annotation])
                  IN  IF p.err
                      THEN [res |-> req, err |-> TRUE,
                            annotation |-> o.annotation,
                            value |-> annotations[o.annotation]]
                      ELSE frpcResourcesFrom(annotations, i + 1,
                                             SetQuantity(req, o, p.q))

\* frpcResources(svc), on the Service's annotations
frpcResources(annotations) ==
    frpcResourcesFrom(annotations, 1, defaultFrpcResources)

ResourceAnnotations ==
    {resourceAnnotationOverrides[i].annotation :
        i \in 1..Len(resourceAnnotationOverrides)}

\* the Resources of a container that sets none
NoResources ==
    [Requests |-> [cpu |-> NoQuantity, memory |-> NoQuantity],
     Limits |-> [cpu |-> NoQuantity, memory |-> NoQuantity]]

----------------------------------------------------------------------------
(* The world the Manager acts on: the remote provider's resources and the  *)
(* derived objects in the cluster.  A world is a record                    *)
(*   apps        the names of the remote apps                              *)
(*   machines    the compute instances, each a record                      *)
(*   ips         the allocated addresses, each a record                    *)
(*   nextMachine, nextIP   the identifiers handed out so far               *)
(*   configMaps, deployments   by deployment name, in the operator's       *)
(*               namespace                                                 *)

NoConfigMap == [exists |-> FALSE, data |-> <<>>]
NoDeployment ==
    [exists |-> FALSE, image |-> "", configMap |-> <<>>, restartAt |-> -1,
     resources |-> NoResources]

\* the address of the allocation with identifier id
AddressOf(id) == 100 + id

MachinesOf(w, app) == {m \in w.machines : m.app = app}
IPsOf(w, app) == {a \in w.ips : a.app = app}

\* create-app(name, org): idempotent-or-error.  dupOk is the provider's
\* answer to a create of a name that exists: reuse (TRUE) or an error.
FlyCreateApp(w, app, fail, dupOk) ==
    IF fail THEN [err |-> TRUE, w |-> w]
    ELSE IF app \in w.apps
         THEN [err |-> ~dupOk, w |-> w]
         ELSE [err |-> FALSE, w |-> [w EXCEPT !.apps = @ \cup {app}]]

\* create-instance(app, spec) -> instance{id, state}
FlyCreateMachine(w, app, input, fail) ==
    IF fail \/ app \notin w.apps THEN [err |-> TRUE, w |-> w, id |-> 0]
    ELSE LET id == w.nextMachine + 1
             m == [id |-> id, app |-> app, name |-> input.Name,
                   region |-> input.Region, image |-> input.Image,
                   guest |-> input.Guest, services |-> input.Services,
                   started |-> FALSE]
         IN  [err |-> FALSE,
              w |-> [w EXCEPT !.machines = @ \cup {m}, !.nextMachine = id],
              id |-> id]

\* wait-instance(app, id, target-state, timeout): the instance is started
\* when the wait returns without error
FlyWaitForMachine(w, app, id, fail) ==
    IF fail \/ ~\E m \in w.machines : m.id = id /\ m.app = app
    THEN [err |-> TRUE, w |-> w]
    ELSE [err |-> FALSE,
          w |-> [w EXCEPT !.machines =
                   {IF m.id = id THEN [m EXCEPT !.started = TRUE] ELSE m : m \in @}]]

\* allocate-address(app) -> address{id, value}
FlyAllocateDedicatedIPv4(w, app, fail) ==
    IF fail \/ app \notin w.apps THEN [err |-> TRUE, w |-> w, id |-> 0, address |-> 0]
    ELSE LET id == w.nextIP + 1
         IN  [err |-> FALSE,
              w |-> [w EXCEPT !.ips = @ \cup {[id |-> id, app |-> app,
                                               address |-> AddressOf(id)]},
                              !.nextIP = id],
              id |-> id, address |-> AddressOf(id)]

\* release-address(app, id)
FlyReleaseIPAddress(w, app, ipID, fail) ==
    IF fail \/ ~\E a \in w.ips : a.id = ipID /\ a.app = app
    THEN [err |-> TRUE, w |-> w]
    ELSE [err |-> FALSE,
          w |-> [w EXCEPT !.ips = {a \in @ : ~(a.id = ipID /\ a.app = app)}]]

\* delete-instance(app, id)
FlyDeleteMachine(w, app, id, fail) ==
    IF fail \/ ~\E m \in w.machines : m.id = id /\ m.app = app
    THEN [err |-> TRUE, w |-> w]
    ELSE [err |-> FALSE,
          w |-> [w EXCEPT !.machines = {m \in @ : ~(m.id = id /\ m.app = app)}]]

\* delete-app(name), forced: cascades the app's instances and addresses
FlyDeleteApp(w, app, fail) ==
    IF fail \/ app \notin w.apps THEN [err |-> TRUE, w |-> w]
    ELSE [err |-> FALSE,
          w |-> [w EXCEPT !.apps = @ \ {app},
                          !.machines = {m \in @ : m.app # app},
                          !.ips = {a \in @ : a.app # app}]]

\* update-instance(app, id, spec): the instance takes the given name,
\* region, image and services; a guest that is not given is left as it is
FlyUpdateMachine(w, app, id, input, fail) ==
    IF fail \/ ~\E m \in w.machines : m.id = id /\ m.app = app
    THEN [err |-> TRUE, w |-> w]
    ELSE [err |-> FALSE,
          w |-> [w EXCEPT !.machines =
                   {IF m.id = id /\ m.app = app
                    THEN [m EXCEPT !.name = input.Name, !.region = input.Region,
                                   !.image = input.Image,
                                   !.services = input.Services]
                    ELSE m : m \in @}]]

\* generate-client-config(declared-ports, remote-address, control-port): one
\* forwarding entry per declared port, its protocol that of the port, its
\* local target the Service's cluster-internal address
GenerateClientConfig(o, ports, serverAddr, serverPort) ==
    [serverAddr |-> serverAddr, serverPort |-> serverPort,
     proxies |-> [i \in 1..Len(ports) |->
                    [type |-> ports[i].Protocol,
                     localIP |-> <<Name[o], Namespace[o]>>,
                     localPort |-> ports[i].Port,
                     remotePort |-> ports[i].Port]]]

----------------------------------------------------------------------------
(* internal/tunnel/manager.go *)

guestForSize(size) ==
    CASE size = "shared-cpu-2x" -> [CPUKind |-> "shared", CPUs |-> 2, MemoryMB |-> 512]
      [] size = "shared-cpu-4x" -> [CPUKind |-> "shared", CPUs |-> 4, MemoryMB |-> 1024]
      [] size = "performance-1x" -> [CPUKind |-> "performance", CPUs |-> 1, MemoryMB |-> 2048]
      [] size = "performance-2x" -> [CPUKind |-> "performance", CPUs |-> 2, MemoryMB |-> 4096]
      [] OTHER -> [CPUKind |-> "shared", CPUs |-> 1, MemoryMB |-> 256]

\* (variant: the first Service port alone is forwarded)
MachineServicesFirstPort(ports) ==
    <<[Protocol |-> "tcp", InternalPort |-> DefaultServerPort, Port |-> DefaultServerPort]>>
    \o [i \in 1..(IF Len(ports) > 0 THEN 1 ELSE 0) |->
          [Protocol |-> "tcp", InternalPort |-> ports[i].Port, Port |-> ports[i].Port]]

\* the Machine services: the frp control channel, then one entry per
\* Service port
MachineServices(ports) ==
    <<[Protocol |-> "tcp", InternalPort |-> DefaultServerPort, Port |-> DefaultServerPort]>>
    \o [i \in 1..Len(ports) |->
          [Protocol |-> "tcp", InternalPort |-> ports[i].Port, Port |-> ports[i].Port]]

\* region: the per-service override or the default
RegionFor(s) == IF s.ann.region # "" THEN s.ann.region ELSE Config.FlyRegion

\* guest: by the per-service size override or the default size
GuestFor(s) ==
    IF s.ann.size # "" THEN guestForSize(s.ann.size)
    ELSE guestForSize(Config.FlyMachineSize)

ConfigMapName(deploymentName) ==
    deploymentName \o <<"-","c","o","n","f","i","g">>

ConfigMapNames == {ConfigMapName(d) : d \in DeployNames}

\* TunnelResult; NoResult is the nil result
NoResult ==
    [FlyApp |-> <<>>, MachineID |-> 0, PublicIP |-> 0, IPID |-> 0,
     FrpcDeployment |-> <<>>]

\* The forward steps of Provision, in order.  deployFrpc has two parts, the
\* ConfigMap and the Deployment; a failing cluster call in a part (Create;
\* or, when the object exists, Get or Update) fails the part.
ProvisionSteps ==
    <<"CreateApp", "CreateMachine", "WaitForMachine", "AllocateDedicatedIPv4",
      "deployFrpcConfigMap", "deployFrpcDeployment">>

\* (variant: the Deployment is not created)
deployFrpcConfigMapOnly(w, o, ports, serverAddr, deploymentName, failAt) ==
    LET configMapName == ConfigMapName(deploymentName)
        configData == GenerateClientConfig(o, ports, serverAddr, DefaultServerPort)
        w1 == [w EXCEPT !.configMaps[configMapName] =
                            [exists |-> TRUE, data |-> configData]]
    IN  IF failAt = "deployFrpcConfigMap" THEN [err |-> TRUE, w |-> w]
        ELSE IF failAt = "deployFrpcDeployment" THEN [err |-> TRUE, w |-> w1]
        ELSE [err |-> FALSE, w |-> w1]

\* (variant: Create alone, an object that exists is an error)
deployFrpcCreateOnly(w, o, ports, serverAddr, deploymentName, failAt) ==
    LET configMapName == ConfigMapName(deploymentName)
        configData == GenerateClientConfig(o, ports, serverAddr, DefaultServerPort)
        w1 == [w EXCEPT !.configMaps[configMapName] =
                            [exists |-> TRUE, data |-> configData]]
    IN  IF failAt = "deployFrpcConfigMap" \/ w.configMaps[configMapName].exists
        THEN [err |-> TRUE, w |-> w]
        ELSE IF failAt = "deployFrpcDeployment" \/ w.deployments[deploymentName].exists
        THEN [err |-> TRUE, w |-> w1]
        ELSE [err |-> FALSE,
              w |-> [w1 EXCEPT !.deployments[deploymentName] =
                        [exists |-> TRUE, image |-> Config.FrpcImage,
                         configMap |-> configMapName, restartAt |-> -1,
                         resources |-> NoResources]]]

\* (variant: the Deployment is created also after the ConfigMap failed)
deployFrpcContinues(w, o, ports, serverAddr, deploymentName, failAt) ==
    LET configMapName == ConfigMapName(deploymentName)
        configData == GenerateClientConfig(o, ports, serverAddr, DefaultServerPort)
        made == [exists |-> TRUE, image |-> Config.FrpcImage,
                 configMap |-> configMapName, restartAt |-> -1,
                 resources |-> NoResources]
        w1 == [w EXCEPT !.configMaps[configMapName] =
                            [exists |-> TRUE, data |-> configData]]
    IN  IF failAt = "deployFrpcConfigMap"
        THEN [err |-> TRUE, w |-> [w EXCEPT !.deployments[deploymentName] = made]]
        ELSE IF failAt = "deployFrpcDeployment" THEN [err |-> TRUE, w |-> w1]
        ELSE [err |-> FALSE, w |-> [w1 EXCEPT !.deployments[deploymentName] = made]]

\* deployFrpc: create the frpc ConfigMap and Deployment, or update them when
\* they exist; the frpc container is given an image, a command and a volume
\* mount, and no Resources
deployFrpc(w, o, ports, serverAddr, deploymentName, failAt) ==
    LET configMapName == ConfigMapName(deploymentName)
        configData == GenerateClientConfig(o, ports, serverAddr, DefaultServerPort)
        w1 == [w EXCEPT !.configMaps[configMapName] =
                            [exists |-> TRUE, data |-> configData]]
        w2 == [w1 EXCEPT !.deployments[deploymentName] =
                            [exists |-> TRUE, image |-> Config.FrpcImage,
                             configMap |-> configMapName, restartAt |-> -1,
                             resources |-> NoResources]]
    IN  IF failAt = "deployFrpcConfigMap" THEN [err |-> TRUE, w |-> w]
        ELSE IF failAt = "deployFrpcDeployment" THEN [err |-> TRUE, w |-> w1]
        ELSE [err |-> FALSE, w |-> w2]

\* (variant: the rollbacks after the address steps leave the app)
RollbackCallsBroken(step) ==
    CASE step = "CreateMachine" -> <<"DeleteApp">>
      [] step = "WaitForMachine" -> <<"DeleteMachine", "DeleteApp">>
      [] step = "AllocateDedicatedIPv4" -> <<"DeleteMachine">>
      [] step \in {"deployFrpcConfigMap", "deployFrpcDeployment"} ->
            <<"ReleaseIPAddress", "DeleteMachine">>
      [] OTHER -> <<>>

\* The compensating calls Provision makes when the given step fails, in
\* the order it makes them.
RollbackCalls(step) ==
    CASE step = "CreateMachine" -> <<"DeleteApp">>
      [] step = "WaitForMachine" -> <<"DeleteMachine", "DeleteApp">>
      [] step = "AllocateDedicatedIPv4" -> <<"DeleteMachine", "DeleteApp">>
      [] step \in {"deployFrpcConfigMap", "deployFrpcDeployment"} ->
            <<"ReleaseIPAddress", "DeleteMachine", "DeleteApp">>
      [] OTHER -> <<>>

\* One compensating call; its error is dropped by the caller (_ = ...).
CompensatingCall(w, call, app, machineID, ipID, fail) ==
    CASE call = "ReleaseIPAddress" -> FlyReleaseIPAddress(w, app, ipID, fail)
      [] call = "DeleteMachine" -> FlyDeleteMachine(w, app, machineID, fail)
      [] call = "DeleteApp" -> FlyDeleteApp(w, app, fail)

\* The compensating calls in order; err tells whether one of them failed.
RECURSIVE Rollback(_, _, _, _, _, _)
Rollback(w, calls, app, machineID, ipID, rbFail) ==
    IF calls = <<>> THEN [err |-> FALSE, w |-> w]
    ELSE LET r == CompensatingCall(w, Head(calls), app, machineID, ipID,
                                   Head(calls) \in rbFail)
             rest == Rollback(r.w, Tail(calls), app, machineID, ipID, rbFail)
         IN  [err |-> r.err \/ rest.err, w |-> rest.w]

\* (variant: the error is lost when a compensating call fails)
ProvisionErrOnlyCleanRollback(failedAt, rollbackErr) == failedAt # "none" /\ ~rollbackErr

\* Whether Provision returns an error when the step failedAt failed and the
\* compensating calls ended with rollbackErr.
ProvisionErr(failedAt, rollbackErr) == failedAt # "none"

\* Manager.Provision on the Service s (the caller's copy) of identity o.
\* sc is what the calls of this run meet: failAt, the forward step that
\* fails ("none": none); rb, the compensating calls that fail; dupOk, the
\* provider's answer to the creation of an app that exists.
\* Returns err, failedAt (the step that failed), rollbackErr (a compensating
\* call failed), the world after the call and the result.
Provision(w, s, o, sc) ==
    LET tunnelName == TunnelNameOf[o]
        flyAppName == FlyAppNameOf[o]
        region == RegionFor(s)
        r1 == FlyCreateApp(w, flyAppName, sc.failAt = "CreateApp", sc.dupOk)
        machineServices == MachineServices(s.ports)
        guest == GuestFor(s)
        input == [Name |-> tunnelName, Region |-> region,
                  Image |-> Config.FrpsImage, Guest |-> guest,
                  Services |-> machineServices]
        r2 == FlyCreateMachine(r1.w, flyAppName, input, sc.failAt = "CreateMachine")
        r3 == FlyWaitForMachine(r2.w, flyAppName, r2.id, sc.failAt = "WaitForMachine")
        r4 == FlyAllocateDedicatedIPv4(r3.w, flyAppName,
                                       sc.failAt = "AllocateDedicatedIPv4")
        frpcDeploymentName == FrpcDeploymentNameOf[o]
        r5 == deployFrpc(r4.w, o, s.ports, r4.address, frpcDeploymentName, sc.failAt)
        Failed(step, wAfter, machineID, ipID) ==
            LET rb == Rollback(wAfter, RollbackCalls(step), flyAppName,
                               machineID, ipID, sc.rb)
            IN  [err |-> ProvisionErr(step, rb.err), failedAt |-> step,
                 rollbackErr |-> rb.err, w |-> rb.w, result |-> NoResult]
    IN  IF r1.err THEN Failed("CreateApp", r1.w, 0, 0)
        ELSE IF r2.err THEN Failed("CreateMachine", r2.w, 0, 0)
        ELSE IF r3.err THEN Failed("WaitForMachine", r3.w, r2.id, 0)
        ELSE IF r4.err THEN Failed("AllocateDedicatedIPv4", r4.w, r2.id, 0)
        ELSE IF r5.err THEN Failed(sc.failAt, r5.w, r2.id, r4.id)
        ELSE [err |-> ProvisionErr("none", FALSE), failedAt |-> "none",
              rollbackErr |-> FALSE, w |-> r5.w,
              result |-> [FlyApp |-> flyAppName, MachineID |-> r2.id,
                          PublicIP |-> r4.address, IPID |-> r4.id,
                          FrpcDeployment |-> frpcDeploymentName]]

\* The calls of Teardown that can fail, in the order it makes them.
TeardownCalls ==
    <<"DeleteDeployment", "DeleteConfigMap", "ReleaseIPAddress", "DeleteMachine",
      "DeleteApp">>

\* (variant: the ConfigMap is not deleted)
deleteFrpcResourcesDeploymentOnly(w, deploymentName, F) ==
    IF "DeleteDeployment" \in F THEN [err |-> TRUE, w |-> w]
    ELSE [err |-> "DeleteConfigMap" \in F,
          w |-> [w EXCEPT !.deployments[deploymentName] = NoDeployment]]

\* deleteFrpcResources: a Deployment or ConfigMap that is not there is no
\* error; a failed Deployment delete returns before the ConfigMap delete
deleteFrpcResources(w, deploymentName, F) ==
    LET configMapName == ConfigMapName(deploymentName)
        w1 == [w EXCEPT !.deployments[deploymentName] = NoDeployment]
        w2 == [w1 EXCEPT !.configMaps[configMapName] = NoConfigMap]
    IN  IF "DeleteDeployment" \in F THEN [err |-> TRUE, w |-> w]
        ELSE IF "DeleteConfigMap" \in F THEN [err |-> TRUE, w |-> w1]
        ELSE [err |-> FALSE, w |-> w2]

\* (variant: a failed step fails Teardown)
TeardownErrPropagated(stepErrs) == stepErrs # {}

\* What Teardown returns when the steps stepErrs failed: nil, they are logged.
TeardownErr(stepErrs) == FALSE

\* Manager.Teardown on the Service s; F are the calls that fail in this run.
Teardown(w, s, F) ==
    LET flyAppName == s.ann.flyApp
        deployName == s.ann.frpcDeployment
        r1 == IF deployName # <<>> THEN deleteFrpcResources(w, deployName, F)
              ELSE [err |-> FALSE, w |-> w]
        ipID == s.ann.ipID
        r2 == IF ipID # 0
              THEN FlyReleaseIPAddress(r1.w, flyAppName, ipID, "ReleaseIPAddress" \in F)
              ELSE [err |-> FALSE, w |-> r1.w]
        machineID == s.ann.machineID
        r3 == IF machineID # 0
              THEN FlyDeleteMachine(r2.w, flyAppName, machineID, "DeleteMachine" \in F)
              ELSE [err |-> FALSE, w |-> r2.w]
        r4 == FlyDeleteApp(r3.w, flyAppName, "DeleteApp" \in F)
        stepErrs == {i \in 1..4 : <<r1, r2, r3, r4>>[i].err}
    IN  IF flyAppName # <<>>
        THEN [err |-> TeardownErr(stepErrs), w |-> r4.w, stepErrs |-> stepErrs]
        ELSE [err |-> TeardownErr({i \in {1} : r1.err}), w |-> r1.w,
              stepErrs |-> {i \in {1} : r1.err}]

\* The calls of Update that can fail, in the order it makes them.
UpdateCalls ==
    <<"GetConfigMap", "UpdateConfigMap", "GetDeployment", "UpdateDeployment",
      "UpdateMachine">>

\* Manager.Update on the Service s of identity o; failAt is the call that
\* fails in this run ("none": none) and t is the reading of time.Now().
Update(w, s, o, failAt, t) ==
    LET publicIP == s.ann.publicIP
        deployName == s.ann.frpcDeployment
        machineID == s.ann.machineID
        flyAppName == s.ann.flyApp
        configMapName == ConfigMapName(deployName)
        configData == GenerateClientConfig(o, s.ports, publicIP, DefaultServerPort)
        w1 == [w EXCEPT !.configMaps[configMapName].data = configData]
        w2 == [w1 EXCEPT !.deployments[deployName].restartAt = t]
        input == [Name |-> TunnelNameOf[o], Region |-> RegionFor(s),
                  Image |-> Config.FrpsImage, Services |-> MachineServices(s.ports)]
        r3 == FlyUpdateMachine(w2, flyAppName, machineID, input,
                               failAt = "UpdateMachine")
    IN  IF publicIP = 0 \/ deployName = <<>> \/ flyAppName = <<>>
        THEN [err |-> TRUE, at |-> "annotations", w |-> w]
        ELSE IF failAt = "GetConfigMap" \/ ~w.configMaps[configMapName].exists
        THEN [err |-> TRUE, at |-> "GetConfigMap", w |-> w]
        ELSE IF failAt = "UpdateConfigMap"
        THEN [err |-> TRUE, at |-> "UpdateConfigMap", w |-> w]
        ELSE IF failAt = "GetDeployment" \/ ~w1.deployments[deployName].exists
        THEN [err |-> TRUE, at |-> "GetDeployment", w |-> w1]
        ELSE IF failAt = "UpdateDeployment"
        THEN [err |-> TRUE, at |-> "UpdateDeployment", w |-> w1]
        ELSE IF machineID = 0
        THEN [err |-> FALSE, at |-> "none", w |-> w2]
        ELSE IF r3.err
        THEN [err |-> TRUE, at |-> "UpdateMachine", w |-> w2]
        ELSE [err |-> FALSE, at |-> "none", w |-> r3.w]

----------------------------------------------------------------------------
(* The Service objects of the cluster API *)

EmptyAnnotations ==
    [flyApp |-> <<>>, machineID |-> 0, frpcDeployment |-> <<>>, ipID |-> 0,
     publicIP |-> 0, region |-> "", size |-> "", resources |-> <<>>]

\* no such Service
NoSvc ==
    [exists |-> FALSE, type |-> "", lbClass |-> "", ports |-> <<>>,
     ann |-> EmptyAnnotations, finalizer |-> FALSE, deleting |-> FALSE,
     ingress |-> <<>>]

P80 == [Port |-> 80, Protocol |-> "TCP"]
P443 == [Port |-> 443, Protocol |-> "TCP"]
P53 == [Port |-> 53, Protocol |-> "UDP"]

\* the port lists the user declares
PortLists == {<<P80>>, <<P80, P443>>, <<P53>>}

\* What the user creates: managed Services (with and without the region and
\* size overrides) and Services that are not managed: of another type, with
\* no class (lbClass ""), with another class.
Templates ==
    {[type |-> "LoadBalancer", lbClass |-> DefaultLoadBalancerClass,
      ports |-> <<P80>>, region |-> "", size |-> ""],
     [type |-> "LoadBalancer", lbClass |-> DefaultLoadBalancerClass,
      ports |-> <<P80, P443>>, region |-> "lhr", size |-> "performance-1x"],
     [type |-> "LoadBalancer", lbClass |-> "", ports |-> <<P80>>,
      region |-> "", size |-> ""],
     [type |-> "LoadBalancer", lbClass |-> "example.com/other", ports |-> <<P80>>,
      region |-> "", size |-> ""],
     [type |-> "ClusterIP", lbClass |-> "", ports |-> <<P80>>,
      region |-> "", size |-> ""]}

NewSvc(tpl) ==
    [NoSvc EXCEPT !.exists = TRUE, !.type = tpl.type, !.lbClass = tpl.lbClass,
                  !.ports = tpl.ports, !.ann.region = tpl.region,
                  !.ann.size = tpl.size]

----------------------------------------------------------------------------
(* internal/controller: ServiceReconciler *)

\* (variant: the class is not looked at)
isManagedAnyClass(s) == s.type = "LoadBalancer"

\* isManaged: type LoadBalancer, a class that is set and is the operator's

isManaged(s) ==
    IF s.type # "LoadBalancer" THEN FALSE
    ELSE IF s.lbClass = "" THEN FALSE
    ELSE s.lbClass = Config.loadBalancerClass

\* (variant: create events are dropped)
CreateFuncNever(s) == FALSE

\* serviceFilter: the predicate on the watch events
CreateFunc(s) == isManaged(s)

\* (variant: every update of a managed Service is admitted)
UpdateFuncAnyUpdate(oldSvc, newSvc) == isManaged(newSvc)

\* (variant: the status is not looked at)
UpdateFuncIgnoresStatus(oldSvc, newSvc) ==
    IF ~isManaged(newSvc) THEN FALSE
    ELSE IF oldSvc.ports # newSvc.ports THEN TRUE
    ELSE IF oldSvc.ann # newSvc.ann THEN TRUE
    ELSE newSvc.deleting

UpdateFunc(oldSvc, newSvc) ==
    IF ~isManaged(newSvc) THEN FALSE
    ELSE IF oldSvc.ports # newSvc.ports THEN TRUE
    ELSE IF oldSvc.ann # newSvc.ann THEN TRUE
    ELSE IF newSvc.deleting THEN TRUE
    ELSE IF Len(newSvc.ingress) = 0 THEN TRUE
    ELSE IF newSvc.ann.publicIP # 0 /\ newSvc.ingress[1] # newSvc.ann.publicIP
         THEN TRUE
    ELSE FALSE

DeleteFunc(s) == isManaged(s)

GenericFunc(s) == FALSE

\* (variant: a deleting Service with no recorded app skips Teardown)
AfterFetchSkipTeardown(s) ==
    IF ~isManaged(s) THEN "return"
    ELSE IF s.deleting
         THEN IF s.ann.flyApp = <<>> THEN "removeFinalizer" ELSE "reconcileDelete"
    ELSE IF ~s.finalizer THEN "addFinalizer"
    ELSE IF s.ann.flyApp # <<>> THEN "reconcileUpdate"
    ELSE "reconcileCreate"

\* (variant: the finalizer is not looked at)
AfterFetchSkipFinalizer(s) ==
    IF ~isManaged(s) THEN "return"
    ELSE IF s.deleting THEN "reconcileDelete"
    ELSE IF s.ann.flyApp # <<>> THEN "reconcileUpdate"
    ELSE "reconcileCreate"

\* (variant: the fly-app annotation is not looked at)
AfterFetchAlwaysCreate(s) ==
    IF ~isManaged(s) THEN "return"
    ELSE IF s.deleting THEN "reconcileDelete"
    ELSE IF ~s.finalizer THEN "addFinalizer"
    ELSE "reconcileCreate"

\* Where Reconcile goes after fetching the Service s.
AfterFetch(s) ==
    IF ~isManaged(s) THEN "return"
    ELSE IF s.deleting THEN "reconcileDelete"
    ELSE IF ~s.finalizer THEN "addFinalizer"
    ELSE IF s.ann.flyApp # <<>> THEN "reconcileUpdate"
    ELSE "reconcileCreate"

\* (variant: the ip-id annotation is not stored)
WithResultAnnotationsNoIPID(ann, result) ==
    [ann EXCEPT !.flyApp = result.FlyApp, !.machineID = result.MachineID,
                !.frpcDeployment = result.FrpcDeployment,
                !.publicIP = result.PublicIP]

\* (variant: the public-ip annotation is not stored)
WithResultAnnotationsNoPublicIP(ann, result) ==
    [ann EXCEPT !.flyApp = result.FlyApp, !.machineID = result.MachineID,
                !.frpcDeployment = result.FrpcDeployment,
                !.ipID = result.IPID]

\* reconcileCreate: the annotations that store the tunnel state
WithResultAnnotations(ann, result) ==
    [ann EXCEPT !.flyApp = result.FlyApp, !.machineID = result.MachineID,
                !.frpcDeployment = result.FrpcDeployment,
                !.ipID = result.IPID, !.publicIP = result.PublicIP]

\* (variant: only the empty status is looked at)
needsStatusUpdateOnlyEmpty(s) == Len(s.ingress) = 0

\* reconcileUpdate: whether the status needs the recorded address
needsStatusUpdate(s) ==
    Len(s.ingress) = 0 \/ s.ingress[1] # s.ann.publicIP

\* (variant: the error of Update is returned)
reconcileUpdateReturnsErr(updateErr) == IF updateErr THEN "err" ELSE "ok"

\* reconcileUpdate: what the pass returns after Update returned updateErr;
\* the error is logged
reconcileUpdateResult(updateErr) == "ok"

----------------------------------------------------------------------------
(* State *)

VARIABLES
    svc,        \* the Service objects in the cluster API, by identity
    world,      \* the remote provider's resources and the derived cluster objects
    queued,     \* the work queue: the keys waiting for a reconciliation pass
    pc,         \* per key, where its pass is ("idle": no pass is running)
    loc,        \* per key, the pass's copy of the Service (svc in the code)
    stale,      \* per key, whether the Service was written by another writer
                \* since the pass read it (its resourceVersion is outdated)
    res,        \* per key, the result Provision returned to the pass
    now,        \* the last reading of the wall clock
    failures,   \* operations that met a failing call so far
    userOps,    \* operations of the user so far
    lastOp,     \* the last call of the Manager: operation, argument, outcome
    lastResult, \* per key, what the last finished pass returned
    wasManaged, \* per key, whether a Service of the operator's class was ever created
    provisioned, \* per key, whether a call of Provision returned a result
    probe,      \* the last direct call of a function of the packages: its
                \* name, its arguments and what it returned
    everErr     \* per key, whether a pass returned an error

vars == <<svc, world, queued, pc, loc, stale, res, now, failures, userOps,
          lastOp, lastResult, wasManaged, provisioned, probe, everErr>>

NoOp == [op |-> "none", o |-> "", arg |-> NoSvc, out |-> [err |-> FALSE],
         preEmpty |-> TRUE]

\* no direct call yet
NoProbe == [op |-> "none"]

Init ==
    /\ svc = [o \in Svcs |-> NoSvc]
    /\ world = [apps |-> {}, machines |-> {}, ips |-> {},
                nextMachine |-> 0, nextIP |-> 0,
                configMaps |-> [n \in ConfigMapNames |-> NoConfigMap],
                deployments |-> [n \in DeployNames |-> NoDeployment]]
    /\ queued = {}
    /\ pc = [o \in Svcs |-> "idle"]
    /\ loc = [o \in Svcs |-> NoSvc]
    /\ stale = [o \in Svcs |-> FALSE]
    /\ res = [o \in Svcs |-> NoResult]
    /\ now = 0
    /\ failures = 0
    /\ userOps = 0
    /\ lastOp = NoOp
    /\ lastResult = [o \in Svcs |-> "none"]
    /\ wasManaged = [o \in Svcs |-> FALSE]
    /\ provisioned = [o \in Svcs |-> FALSE]
    /\ probe = NoProbe
    /\ everErr = [o \in Svcs |-> FALSE]

\* no remote resource and no derived cluster object of identity o
NoResourcesFor(w, o) ==
    /\ FlyAppNameOf[o] \notin w.apps
    /\ MachinesOf(w, FlyAppNameOf[o]) = {}
    /\ IPsOf(w, FlyAppNameOf[o]) = {}
    /\ ~w.deployments[FrpcDeploymentNameOf[o]].exists
    /\ ~w.configMaps[ConfigMapName(FrpcDeploymentNameOf[o])].exists

\* whether a call may be made to fail: the failures are bounded
MayFail == IF failures < MaxFailures THEN BOOLEAN ELSE {FALSE}

----------------------------------------------------------------------------
(* The user and the API server *)

\* a write of another writer to the Service outdates the copy of a running pass
Outdate(o) == stale' = [stale EXCEPT ![o] = (pc[o] # "idle")]

UserCreate(o) ==
    /\ userOps < MaxUserOps
    /\ ~svc[o].exists
    /\ \E tpl \in Templates :
         /\ svc' = [svc EXCEPT ![o] = NewSvc(tpl)]
         /\ queued' = IF CreateFunc(NewSvc(tpl)) THEN queued \cup {o} ELSE queued
         /\ wasManaged' = [wasManaged EXCEPT ![o] =
                @ \/ (tpl.type = "LoadBalancer"
                      /\ tpl.lbClass = DefaultLoadBalancerClass)]
    /\ userOps' = userOps + 1
    /\ Outdate(o)
    /\ UNCHANGED <<world, pc, loc, res, now, failures, lastOp, lastResult,
                   provisioned, probe, everErr>>

UserEditPorts(o) ==
    /\ userOps < MaxUserOps
    /\ svc[o].exists
    /\ \E ports \in PortLists \ {svc[o].ports} :
         LET new == [svc[o] EXCEPT !.ports = ports]
         IN  /\ svc' = [svc EXCEPT ![o] = new]
             /\ queued' = IF UpdateFunc(svc[o], new) THEN queued \cup {o} ELSE queued
    /\ userOps' = userOps + 1
    /\ Outdate(o)
    /\ UNCHANGED <<world, pc, loc, res, now, failures, lastOp, lastResult,
                   wasManaged, provisioned, probe, everErr>>

\* the user changes the type of a LoadBalancer Service, which clears its class
UserChangeType(o) ==
    /\ userOps < MaxUserOps
    /\ svc[o].exists
    /\ svc[o].type = "LoadBalancer"
    /\ LET new == [svc[o] EXCEPT !.type = "ClusterIP", !.lbClass = ""]
       IN  /\ svc' = [svc EXCEPT ![o] = new]
           /\ queued' = IF UpdateFunc(svc[o], new) THEN queued \cup {o} ELSE queued
    /\ userOps' = userOps + 1
    /\ Outdate(o)
    /\ UNCHANGED <<world, pc, loc, res, now, failures, lastOp, lastResult,
                   wasManaged, provisioned, probe, everErr>>

\* the user deletes the Service: with a finalizer it gets its deletion
\* timestamp, without one it is gone
UserDelete(o) ==
    /\ userOps < MaxUserOps
    /\ svc[o].exists
    /\ ~svc[o].deleting
    /\ IF svc[o].finalizer
       THEN LET new == [svc[o] EXCEPT !.deleting = TRUE]
            IN  /\ svc' = [svc EXCEPT ![o] = new]
                /\ queued' = IF UpdateFunc(svc[o], new) THEN queued \cup {o} ELSE queued
       ELSE /\ svc' = [svc EXCEPT ![o] = NoSvc]
            /\ queued' = IF DeleteFunc(svc[o]) THEN queued \cup {o} ELSE queued
    /\ userOps' = userOps + 1
    /\ Outdate(o)
    /\ UNCHANGED <<world, pc, loc, res, now, failures, lastOp, lastResult,
                   wasManaged, provisioned, probe, everErr>>

----------------------------------------------------------------------------
(* ServiceReconciler.Reconcile, call by call *)

\* The pass returns: r is "ok" (nil error) or "err"; a pass that returns an
\* error is queued again by the host framework.  q is the queue without that.
Return(o, r, q) ==
    /\ pc' = [pc EXCEPT ![o] = "idle"]
    /\ loc' = [loc EXCEPT ![o] = NoSvc]
    /\ res' = [res EXCEPT ![o] = NoResult]
    /\ stale' = [stale EXCEPT ![o] = FALSE]
    /\ lastResult' = [lastResult EXCEPT ![o] = r]
    /\ everErr' = [everErr EXCEPT ![o] = @ \/ r = "err"]
    /\ queued' = IF r = "err" THEN q \cup {o} ELSE q

\* The pass goes on at `to` with the copy s of the Service.
Goto(o, to, s) ==
    /\ pc' = [pc EXCEPT ![o] = to]
    /\ loc' = [loc EXCEPT ![o] = s]
    /\ stale' = [stale EXCEPT ![o] = FALSE]
    /\ UNCHANGED <<lastResult, everErr>>

\* Reconcile, lines 64-107 up to the first write: Get, isManaged, the
\* deletion timestamp, the finalizer, the fly-app annotation
ReconcileFetch(o) ==
    /\ pc[o] = "idle"
    /\ o \in queued
    /\ \E fail \in MayFail :
         /\ failures' = failures + (IF fail THEN 1 ELSE 0)
         /\ IF fail THEN Return(o, "err", queued \ {o})
            ELSE IF ~svc[o].exists THEN Return(o, "ok", queued \ {o})
            ELSE IF AfterFetch(svc[o]) = "return" THEN Return(o, "ok", queued \ {o})
            ELSE /\ Goto(o, AfterFetch(svc[o]), svc[o])
                 /\ queued' = queued \ {o}
                 /\ UNCHANGED res
    /\ UNCHANGED <<svc, world, now, userOps, lastOp, wasManaged, provisioned, probe>>

\* lines 89-93: AddFinalizer and Update
AddFinalizer(o) ==
    /\ pc[o] = "addFinalizer"
    /\ \E fail \in MayFail :
         /\ failures' = failures + (IF fail THEN 1 ELSE 0)
         /\ IF fail \/ stale[o] \/ ~svc[o].exists
            THEN Return(o, "err", queued) /\ UNCHANGED svc
            ELSE LET new == [loc[o] EXCEPT !.finalizer = TRUE]
                 IN  /\ svc' = [svc EXCEPT ![o] = new]
                     /\ Goto(o, "refetch", new)
                     /\ queued' = IF UpdateFunc(svc[o], new)
                                  THEN queued \cup {o} ELSE queued
                     /\ UNCHANGED res
    /\ UNCHANGED <<world, now, userOps, lastOp, wasManaged, provisioned, probe>>

\* lines 94-106: the re-fetch after the finalizer write, then the fly-app
\* annotation decides between reconcileUpdate and reconcileCreate
Refetch(o) ==
    /\ pc[o] = "refetch"
    /\ \E fail \in MayFail :
         /\ failures' = failures + (IF fail THEN 1 ELSE 0)
         /\ IF fail \/ ~svc[o].exists
            THEN Return(o, "err", queued)
            ELSE /\ Goto(o, IF svc[o].ann.flyApp # <<>> THEN "reconcileUpdate"
                            ELSE "reconcileCreate", svc[o])
                 /\ UNCHANGED <<queued, res>>
    /\ UNCHANGED <<svc, world, now, userOps, lastOp, wasManaged, provisioned, probe>>

\* what a run of Provision may meet
ProvisionScenarios(o) ==
    {[failAt |-> "none", rb |-> {}, dupOk |-> d] :
        d \in IF FlyAppNameOf[o] \in world.apps THEN BOOLEAN ELSE {TRUE}}
    \cup
    IF failures < MaxFailures
    THEN UNION {{[failAt |-> ProvisionSteps[i], rb |-> F, dupOk |-> TRUE] :
                    F \in SUBSET Range(RollbackCalls(ProvisionSteps[i]))} :
                i \in 1..Len(ProvisionSteps)}
    ELSE {}

\* reconcileCreate, lines 114-117: Provision
ReconcileCreateProvision(o) ==
    /\ pc[o] = "reconcileCreate"
    /\ \E sc \in ProvisionScenarios(o) :
         LET r == Provision(world, loc[o], o, sc)
         IN  /\ world' = r.w
             /\ failures' = failures + (IF sc.failAt # "none" THEN 1 ELSE 0)
             /\ lastOp' = [op |-> "Provision", o |-> o, arg |-> loc[o],
                           out |-> [err |-> r.err, failedAt |-> r.failedAt,
                                    rollbackErr |-> r.rollbackErr,
                                    result |-> r.result],
                           preEmpty |-> NoResourcesFor(world, o)]
             /\ provisioned' = [provisioned EXCEPT ![o] = @ \/ ~r.err]
             /\ IF r.err
                THEN Return(o, "err", queued)
                ELSE /\ pc' = [pc EXCEPT ![o] = "refetchCreated"]
                     /\ res' = [res EXCEPT ![o] = r.result]
                     /\ UNCHANGED <<loc, stale, lastResult, everErr, queued>>
    /\ UNCHANGED <<svc, now, userOps, wasManaged, probe>>

\* reconcileCreate, lines 119-123: the re-fetch before the annotation write
RefetchCreated(o) ==
    /\ pc[o] = "refetchCreated"
    /\ \E fail \in MayFail :
         /\ failures' = failures + (IF fail THEN 1 ELSE 0)
         /\ IF fail \/ ~svc[o].exists
            THEN Return(o, "err", queued)
            ELSE /\ Goto(o, "writeAnnotations", svc[o])
                 /\ UNCHANGED <<queued, res>>
    /\ UNCHANGED <<svc, world, now, userOps, lastOp, wasManaged, provisioned, probe>>

\* reconcileCreate, lines 125-137: the annotations and Update
WriteAnnotations(o) ==
    /\ pc[o] = "writeAnnotations"
    /\ \E fail \in MayFail :
         /\ failures' = failures + (IF fail THEN 1 ELSE 0)
         /\ IF fail \/ stale[o] \/ ~svc[o].exists
            THEN Return(o, "err", queued) /\ UNCHANGED svc
            ELSE LET new == [loc[o] EXCEPT
                               !.ann = WithResultAnnotations(@, res[o])]
                 IN  /\ svc' = [svc EXCEPT ![o] = new]
                     /\ Goto(o, "patchStatus", new)
                     /\ queued' = IF UpdateFunc(svc[o], new)
                                  THEN queued \cup {o} ELSE queued
                     /\ UNCHANGED res
    /\ UNCHANGED <<world, now, userOps, lastOp, wasManaged, provisioned, probe>>

\* reconcileCreate, lines 139-150: the merge patch of the status; it carries
\* the ingress list alone and no resourceVersion
PatchStatus(o) ==
    /\ pc[o] = "patchStatus"
    /\ \E fail \in MayFail :
         /\ failures' = failures + (IF fail THEN 1 ELSE 0)
         /\ IF fail \/ ~svc[o].exists
            THEN Return(o, "err", queued) /\ UNCHANGED svc
            ELSE LET new == [svc[o] EXCEPT !.ingress = <<res[o].PublicIP>>]
                 IN  /\ svc' = [svc EXCEPT ![o] = new]
                     /\ Return(o, "ok", IF UpdateFunc(svc[o], new)
                                        THEN queued \cup {o} ELSE queued)
    /\ UNCHANGED <<world, now, userOps, lastOp, wasManaged, provisioned, probe>>

\* reconcileUpdate, lines 157-171: the status patch when the status lacks
\* the recorded address; the patch's answer refreshes the pass's copy
ReconcileUpdateStatus(o) ==
    /\ pc[o] = "reconcileUpdate"
    /\ IF needsStatusUpdate(loc[o])
       THEN \E fail \in MayFail :
              /\ failures' = failures + (IF fail THEN 1 ELSE 0)
              /\ IF fail \/ ~svc[o].exists
                 THEN Return(o, "err", queued) /\ UNCHANGED svc
                 ELSE LET new == [svc[o] EXCEPT !.ingress = <<loc[o].ann.publicIP>>]
                      IN  /\ svc' = [svc EXCEPT ![o] = new]
                          /\ Goto(o, "managerUpdate", new)
                          /\ queued' = IF UpdateFunc(svc[o], new)
                                       THEN queued \cup {o} ELSE queued
                          /\ UNCHANGED res
       ELSE /\ pc' = [pc EXCEPT ![o] = "managerUpdate"]
            /\ UNCHANGED <<svc, failures, loc, stale, lastResult, everErr,
                           queued, res>>
    /\ UNCHANGED <<world, now, userOps, lastOp, wasManaged, provisioned, probe>>

\* the readings of time.Now(): the clock does not go back
ClockReadings == {t \in now..(now + 1) : t <= MaxClock}

\* reconcileUpdate, lines 173-181: Update, whose error is logged
ReconcileUpdateManager(o) ==
    /\ pc[o] = "managerUpdate"
    /\ \E failAt \in {"none"} \cup
           (IF failures < MaxFailures THEN Range(UpdateCalls) ELSE {}),
          t \in ClockReadings :
         LET r == Update(world, loc[o], o, failAt, t)
         IN  /\ world' = r.w
             /\ now' = t
             /\ failures' = failures + (IF failAt # "none" THEN 1 ELSE 0)
             /\ lastOp' = [op |-> "Update", o |-> o, arg |-> loc[o],
                           out |-> [err |-> r.err, at |-> r.at],
                           preEmpty |-> NoResourcesFor(world, o)]
             /\ Return(o, reconcileUpdateResult(r.err), queued)
    /\ UNCHANGED <<svc, userOps, wasManaged, provisioned, probe>>

\* reconcileDelete, lines 189-191: Teardown
ReconcileDeleteTeardown(o) ==
    /\ pc[o] = "reconcileDelete"
    /\ \E F \in (IF failures < MaxFailures THEN SUBSET Range(TeardownCalls)
                 ELSE {{}}) :
         LET r == Teardown(world, loc[o], F)
         IN  /\ world' = r.w
             /\ failures' = failures + (IF F # {} THEN 1 ELSE 0)
             /\ lastOp' = [op |-> "Teardown", o |-> o, arg |-> loc[o],
                           out |-> [err |-> r.err, stepErrs |-> r.stepErrs,
                                    failing |-> F],
                           preEmpty |-> NoResourcesFor(world, o)]
             /\ IF r.err
                THEN Return(o, "err", queued)
                ELSE /\ pc' = [pc EXCEPT ![o] = "removeFinalizer"]
                     /\ UNCHANGED <<loc, stale, res, lastResult, everErr, queued>>
    /\ UNCHANGED <<svc, now, userOps, wasManaged, provisioned, probe>>

\* reconcileDelete, lines 193-200: RemoveFinalizer and Update; a Service
\* with a deletion timestamp and no finalizer is removed by the API server
RemoveFinalizer(o) ==
    /\ pc[o] = "removeFinalizer"
    /\ \E fail \in MayFail :
         /\ failures' = failures + (IF fail THEN 1 ELSE 0)
         /\ IF fail \/ stale[o] \/ ~svc[o].exists
            THEN Return(o, "err", queued) /\ UNCHANGED svc
            ELSE LET new == [loc[o] EXCEPT !.finalizer = FALSE]
                 IN  /\ svc' = [svc EXCEPT ![o] = IF new.deleting THEN NoSvc ELSE new]
                     /\ Return(o, "ok",
                               IF UpdateFunc(svc[o], new)
                                  \/ (new.deleting /\ DeleteFunc(new))
                               THEN queued \cup {o} ELSE queued)
    /\ UNCHANGED <<world, now, userOps, lastOp, wasManaged, provisioned, probe>>

ReconcileStep(o) ==
    \/ ReconcileFetch(o)
    \/ AddFinalizer(o)
    \/ Refetch(o)
    \/ ReconcileCreateProvision(o)
    \/ RefetchCreated(o)
    \/ WriteAnnotations(o)
    \/ PatchStatus(o)
    \/ ReconcileUpdateStatus(o)
    \/ ReconcileUpdateManager(o)
    \/ ReconcileDeleteTeardown(o)
    \/ RemoveFinalizer(o)

UserStep(o) ==
    \/ UserCreate(o)
    \/ UserEditPorts(o)
    \/ UserChangeType(o)
    \/ UserDelete(o)

\* the Services of the main specification
MainSvcs == {"s1"}

Next == \E o \in MainSvcs : UserStep(o) \/ ReconcileStep(o)

Spec == Init /\ [][Next]_vars

\* The run without failing calls: the budget of failures is used up from
\* the start.  The work queue hands every queued key to a worker and a
\* worker's pass runs to its end.
InitLive ==
    /\ svc = [o \in Svcs |-> NoSvc]
    /\ world = [apps |-> {}, machines |-> {}, ips |-> {},
                nextMachine |-> 0, nextIP |-> 0,
                configMaps |-> [n \in ConfigMapNames |-> NoConfigMap],
                deployments |-> [n \in DeployNames |-> NoDeployment]]
    /\ queued = {}
    /\ pc = [o \in Svcs |-> "idle"]
    /\ loc = [o \in Svcs |-> NoSvc]
    /\ stale = [o \in Svcs |-> FALSE]
    /\ res = [o \in Svcs |-> NoResult]
    /\ now = 0
    /\ failures = MaxFailures
    /\ userOps = 0
    /\ lastOp = NoOp
    /\ lastResult = [o \in Svcs |-> "none"]
    /\ wasManaged = [o \in Svcs |-> FALSE]
    /\ provisioned = [o \in Svcs |-> FALSE]
    /\ probe = NoProbe
    /\ everErr = [o \in Svcs |-> FALSE]

LiveSpec ==
    InitLive /\ [][Next]_vars /\ \A o \in MainSvcs : WF_vars(ReconcileStep(o))

----------------------------------------------------------------------------
(* Properties *)

\* the operator's class, as the Service's fields say it
OfOperatorClass(s) ==
    s.type = "LoadBalancer" /\ s.lbClass = DefaultLoadBalancerClass

\* the five identity annotations are recorded
FiveAnnotations(ann) ==
    /\ ann.flyApp # <<>>
    /\ ann.machineID # 0
    /\ ann.frpcDeployment # <<>>
    /\ ann.ipID # 0
    /\ ann.publicIP # 0

\* what the operator writes on a Service
OperatorFields(s) ==
    <<s.finalizer, s.ann.flyApp, s.ann.machineID, s.ann.frpcDeployment,
      s.ann.ipID, s.ann.publicIP, s.ingress>>

\* the remote resources and derived cluster objects of identity o
ResourcesOf(w, o) ==
    <<FlyAppNameOf[o] \in w.apps, MachinesOf(w, FlyAppNameOf[o]),
      IPsOf(w, FlyAppNameOf[o]), w.deployments[FrpcDeploymentNameOf[o]],
      w.configMaps[ConfigMapName(FrpcDeploymentNameOf[o])]>>

\* C1: when Provision returns after a failure of the create-instance, wait,
\* allocate-address or deploy step and its compensating calls succeeded, the
\* app, every instance and every address of that Service are gone.
C1_RollbackLeavesNoRemoteResource ==
    (/\ lastOp.op = "Provision"
     /\ lastOp.out.failedAt \notin {"none", "CreateApp"}
     /\ ~lastOp.out.rollbackErr)
    => /\ FlyAppNameOf[lastOp.o] \notin world.apps
       /\ MachinesOf(world, FlyAppNameOf[lastOp.o]) = {}
       /\ IPsOf(world, FlyAppNameOf[lastOp.o]) = {}

\* Provision failed at its last step, after an instance and an address were
\* created, and the rollback went through
C1_Witness ==
    /\ lastOp.op = "Provision"
    /\ lastOp.out.failedAt = "deployFrpcDeployment"
    /\ ~lastOp.out.rollbackErr
    /\ world.nextMachine >= 1
    /\ world.nextIP >= 1
    /\ world.apps = {}

\* C2: after a successful Provision for a Service that had no resources,
\* exactly one app, one instance and one address exist for it, the Deployment
\* and the ConfigMap exist, and the result's five fields are non-empty and
\* name those resources.
C2_ProvisionCreatesExactlyOne ==
    (lastOp.op = "Provision" /\ ~lastOp.out.err /\ lastOp.preEmpty)
    => LET o == lastOp.o
           r == lastOp.out.result
       IN  /\ r.FlyApp # <<>> /\ r.MachineID # 0 /\ r.PublicIP # 0
           /\ r.IPID # 0 /\ r.FrpcDeployment # <<>>
           /\ r.FlyApp = FlyAppNameOf[o] /\ r.FlyApp \in world.apps
           /\ Cardinality(MachinesOf(world, r.FlyApp)) = 1
           /\ \A m \in MachinesOf(world, r.FlyApp) : m.id = r.MachineID
           /\ Cardinality(IPsOf(world, r.FlyApp)) = 1
           /\ \A a \in IPsOf(world, r.FlyApp) :
                 a.id = r.IPID /\ a.address = r.PublicIP
           /\ world.deployments[r.FrpcDeployment].exists
           /\ world.configMaps[ConfigMapName(r.FrpcDeployment)].exists

C2_Witness ==
    /\ lastOp.op = "Provision"
    /\ ~lastOp.out.err
    /\ lastOp.preEmpty
    /\ Cardinality(world.machines) = 1
    /\ Cardinality(world.ips) = 1

\* C3: Teardown without failing calls, on a Service that carries the five
\* identity annotations, leaves no app, instance or address of that Service
\* and neither the Deployment nor the ConfigMap.
C3_TeardownLeavesNothing ==
    (/\ lastOp.op = "Teardown"
     /\ lastOp.out.failing = {}
     /\ FiveAnnotations(lastOp.arg.ann))
    => NoResourcesFor(world, lastOp.o)

C3_Witness ==
    /\ lastOp.op = "Teardown"
    /\ provisioned[lastOp.o]
    /\ lastOp.out.failing = {}
    /\ FiveAnnotations(lastOp.arg.ann)
    /\ ~lastOp.preEmpty
    /\ NoResourcesFor(world, lastOp.o)

\* C4 (as claimed): Teardown without failing calls, after a Provision that
\* succeeded, leaves no app, instance, address, Deployment or ConfigMap of
\* the Service, whichever annotations were recorded.
C4_TeardownWithoutAnnotations ==
    (/\ lastOp.op = "Teardown"
     /\ lastOp.out.failing = {}
     /\ provisioned[lastOp.o])
    => NoResourcesFor(world, lastOp.o)

\* C5: Teardown returns no error whichever of its calls fail, and the pass
\* goes on to the write that removes the finalizer.
C5_TeardownNeverFails ==
    [][\A o \in Svcs :
         (pc[o] = "reconcileDelete" /\ pc'[o] # "reconcileDelete")
         => /\ lastOp'.op = "Teardown"
            /\ ~lastOp'.out.err
            /\ pc'[o] = "removeFinalizer"]_vars

\* every call of Teardown failed and the pass is at the finalizer write
C5_Witness ==
    \E o \in Svcs :
        /\ lastOp.op = "Teardown"
        /\ lastOp.o = o
        /\ lastOp.out.failing = Range(TeardownCalls)
        /\ lastOp.out.stepErrs # {}
        /\ pc[o] = "removeFinalizer"

\* C6: for an identity under which no Service of the operator's class was
\* ever created there is no remote resource, no derived cluster object and
\* no finalizer, annotation or status written; and with a Service that is
\* not of the operator's class and no pass under way, no step starts work on
\* it, writes the operator's fields or touches its resources.
C6_NeverManagedUntouched ==
    \A o \in Svcs :
        ~wasManaged[o]
        => /\ NoResourcesFor(world, o)
           /\ OperatorFields(svc[o]) = OperatorFields(NoSvc)

C6_UnmanagedPassDoesNothing ==
    \A o \in Svcs :
        (svc[o].exists /\ ~OfOperatorClass(svc[o]) /\ pc[o] = "idle")
        => /\ pc'[o] = "idle"
           /\ svc'[o].exists => OperatorFields(svc'[o]) = OperatorFields(svc[o])
           /\ ResourcesOf(world', o) = ResourcesOf(world, o)

Provisioned(o) ==
    /\ svc[o].exists
    /\ FiveAnnotations(svc[o].ann)
    /\ svc[o].ingress = <<svc[o].ann.publicIP>>
    /\ \E a \in IPsOf(world, svc[o].ann.flyApp) :
          a.address = svc[o].ann.publicIP /\ a.id = svc[o].ann.ipID

\* C7: with fair scheduling and no failing call, a Service of the operator's
\* class that is not deleted (nor changed to another type) gets its status
\* address, the allocated one, and non-empty app, instance, deployment and
\* address-id annotations.
C7_EventuallyProvisioned ==
    \A o \in MainSvcs :
        (svc[o].exists /\ OfOperatorClass(svc[o]))
        ~> (\/ Provisioned(o)
            \/ ~svc[o].exists
            \/ svc[o].deleting
            \/ ~OfOperatorClass(svc[o])
            \/ everErr[o])

C7_Witness ==
    \E o \in MainSvcs :
        Provisioned(o) /\ ~everErr[o] /\ ~svc[o].deleting /\ OfOperatorClass(svc[o])

\* C8: a pass that finds a deletion timestamp on a managed Service goes to
\* Teardown; the finalizer write is reached only from Teardown, in the same
\* pass; and the finalizer is removed only by that write.
C8_TeardownBeforeFinalizerRemoval ==
    [][\A o \in Svcs :
         /\ (pc[o] = "idle" /\ pc'[o] # "idle" /\ svc[o].deleting)
            => pc'[o] = "reconcileDelete"
         /\ (pc[o] # "removeFinalizer" /\ pc'[o] = "removeFinalizer")
            => (/\ pc[o] = "reconcileDelete"
                /\ lastOp'.op = "Teardown"
                /\ lastOp'.o = o)
         /\ (svc[o].finalizer /\ ~svc'[o].finalizer)
            => (pc[o] = "removeFinalizer" /\ pc'[o] = "idle")]_vars

\* the finalizer was removed, after Teardown, and the Service is gone
C8_Witness ==
    \E o \in Svcs :
        /\ wasManaged[o]
        /\ ~svc[o].exists
        /\ lastOp.op = "Teardown"
        /\ lastOp.o = o
        /\ lastResult[o] = "ok"
        /\ pc[o] = "idle"
        /\ o \notin queued

\* C9: when the pass that provisioned returns success, the five annotations
\* are the fields of the Provision result and the status ingress list is the
\* allocated address alone.
C9_ResultRecorded ==
    [][\A o \in Svcs :
         /\ (pc[o] = "reconcileCreate" /\ pc'[o] = "refetchCreated")
            => res'[o] = lastOp'.out.result
         /\ (pc[o] = "patchStatus" /\ pc'[o] = "idle" /\ lastResult'[o] = "ok")
            => /\ svc'[o].ann.flyApp = res[o].FlyApp
               /\ svc'[o].ann.machineID = res[o].MachineID
               /\ svc'[o].ann.frpcDeployment = res[o].FrpcDeployment
               /\ svc'[o].ann.ipID = res[o].IPID
               /\ svc'[o].ann.publicIP = res[o].PublicIP
               /\ svc'[o].ingress = <<res[o].PublicIP>>]_vars

C9_Witness ==
    \E o \in Svcs :
        /\ pc[o] = "idle"
        /\ lastResult[o] = "ok"
        /\ lastOp.op = "Provision"
        /\ lastOp.o = o
        /\ ~lastOp.out.err
        /\ svc[o].exists
        /\ svc[o].ann.ipID = lastOp.out.result.IPID
        /\ svc[o].ann.ipID # 0
        /\ svc[o].ingress = <<lastOp.out.result.PublicIP>>

\* C10: when a step of Provision fails, Provision returns an error, also
\* when compensating calls fail; the pass returns an error and is queued
\* again; and the Service is left as it was.
C10_ProvisionFailureSurfaces ==
    [][\A o \in Svcs :
         (/\ pc[o] = "reconcileCreate"
          /\ pc'[o] # "reconcileCreate"
          /\ lastOp'.out.failedAt # "none")
         => /\ lastOp'.out.err
            /\ pc'[o] = "idle"
            /\ lastResult'[o] = "err"
            /\ o \in queued'
            /\ svc'[o] = svc[o]]_vars

\* Provision failed, a compensating call failed too, the pass returned the
\* error and the Service carries no identifier and no address
C10_Witness ==
    \E o \in Svcs :
        /\ lastOp.op = "Provision"
        /\ lastOp.o = o
        /\ lastOp.out.failedAt = "AllocateDedicatedIPv4"
        /\ lastOp.out.rollbackErr
        /\ lastResult[o] = "err"
        /\ pc[o] = "idle"
        /\ o \in queued
        /\ svc[o].exists
        /\ OperatorFields(svc[o]) = OperatorFields([NoSvc EXCEPT !.finalizer = TRUE])

\* C11 (as claimed): a Provision for a Service whose derived app exists
\* already, with no failing call, does not fail at the app-creation step.
C11_ProvisionReusesApp ==
    [][\A o \in Svcs :
         (/\ pc[o] = "reconcileCreate"
          /\ pc'[o] # "reconcileCreate"
          /\ FlyAppNameOf[o] \in world.apps
          /\ failures' = failures)
         => lastOp'.out.failedAt # "CreateApp"]_vars

----------------------------------------------------------------------------
(* Direct calls of the packages' functions, as the unit tests make them:   *)
(* each call starts from the initial world and leaves in `probe` what was  *)
(* given and what came back.                                               *)

mainVars == <<svc, world, queued, pc, loc, stale, res, now, failures, userOps,
              lastOp, lastResult, wasManaged, provisioned, everErr>>

\* the sequences over S, without repetition, of at most n elements
SeqsUpTo(S, n) ==
    UNION {{q \in [1..k -> S] : \A i, j \in 1..k : q[i] = q[j] => i = j} :
              k \in 0..n}

\* the longest port list of a direct call
MaxProbePorts == 2

\* the port lists of the direct calls, the empty list among them
ProbePortLists == SeqsUpTo({P80, P443, P53}, MaxProbePorts)

\* a managed Service of identity "s1" with the given ports and annotations
ProbeSvc(ports, ann) ==
    [NoSvc EXCEPT !.exists = TRUE, !.type = "LoadBalancer",
                  !.lbClass = DefaultLoadBalancerClass, !.ports = ports,
                  !.ann = ann]

\* a run of Provision that meets no failing call
NoFailure == [failAt |-> "none", rb |-> {}, dupOk |-> TRUE]

\* what a direct call of Provision on the ports left
ProvisionOutcome(ports, r) ==
    [op |-> "Provision", ports |-> ports, err |-> r.err,
     result |-> r.result, machines |-> r.w.machines]

\* TestProvision: Provision on a Service with the given ports
ProbeProvision ==
    /\ probe = NoProbe
    /\ \E ports \in ProbePortLists :
         probe' = ProvisionOutcome(ports,
                      Provision(world, ProbeSvc(ports, EmptyAnnotations), "s1", NoFailure))
    /\ UNCHANGED mainVars

\* C12: the machine Provision creates for a list of declared ports, the
\* empty list included, has the control-channel entry and then one entry per
\* declared port, whose internal and external port are the declared port.
C12_OneEntryPerPort ==
    probe.op = "Provision"
    => /\ ~probe.err
       /\ Cardinality(probe.machines) = 1
       /\ \A m \in probe.machines :
            /\ m.id = probe.result.MachineID
            /\ Len(m.services) = Len(probe.ports) + 1
            /\ m.services[1].InternalPort = DefaultServerPort
            /\ m.services[1].Port = DefaultServerPort
            /\ \A i \in 1..Len(probe.ports) :
                 /\ m.services[i + 1].InternalPort = probe.ports[i].Port
                 /\ m.services[i + 1].Port = probe.ports[i].Port

\* the machine of the empty port list: the control-channel entry alone
C12_Witness ==
    /\ probe.op = "Provision"
    /\ probe.ports = <<>>
    /\ \E m \in probe.machines : Len(m.services) = 1

\* the world a Provision left, and the annotations of its result
Annotated(r) ==
    [w |-> r.w, ann |-> WithResultAnnotations(EmptyAnnotations, r.result),
     result |-> r.result]

\* what is left after Provision on the ports p: the world, and the Service
\* carrying the result's annotations
Provisioned0(p) ==
    Annotated(Provision(world, ProbeSvc(p, EmptyAnnotations), "s1", NoFailure))

\* what an Update left: its error, the ConfigMap content, the pod template's
\* restart-at annotation and the services of the machines
Observed(r) ==
    [err |-> r.err,
     data |-> r.w.configMaps[ConfigMapName(FrpcDeploymentNameOf["s1"])].data,
     restartAt |-> r.w.deployments[FrpcDeploymentNameOf["s1"]].restartAt,
     services |-> {m.services : m \in r.w.machines}]

\* what the two Updates u1 and u2 left, after the Provision c
UpdateOutcome(p0, p2, c, u1, u2) ==
    [op |-> "Update", ports0 |-> p0, ports |-> p2,
     address |-> c.result.PublicIP,
     first |-> Observed(u1), second |-> Observed(u2)]

\* the Update with the ports p2 at the reading t2, after the Update u1
SecondUpdate(p0, p2, t2, c, u1) ==
    UpdateOutcome(p0, p2, c, u1,
                  Update(u1.w, ProbeSvc(p2, c.ann), "s1", "none", t2))

\* the Update of the pass that follows the Provision c, at the reading t1,
\* and then the second one
FirstUpdate(p0, p2, t1, t2, c) ==
    SecondUpdate(p0, p2, t2, c,
                 Update(c.w, ProbeSvc(p0, c.ann), "s1", "none", t1))

\* TestUpdate, continued: Provision with the ports p0, the Update of the pass
\* that follows (same ports) at the clock reading t1, then an Update with the
\* ports p2 at the reading t2
ProbeUpdate ==
    /\ probe = NoProbe
    /\ \E p0 \in ProbePortLists \ {<<>>}, p2 \in ProbePortLists \ {<<>>},
          t1 \in 0..MaxClock :
         \E t2 \in t1..MaxClock :
           probe' = FirstUpdate(p0, p2, t1, t2, Provisioned0(p0))
    /\ UNCHANGED mainVars

\* the identity annotations Update reads
IdentityAnnotations == {"flyApp", "machineID", "frpcDeployment", "publicIP"}

\* the annotations ann without those named in missing
Without(ann, missing) ==
    [ann EXCEPT !.flyApp = IF "flyApp" \in missing THEN <<>> ELSE @,
                !.machineID = IF "machineID" \in missing THEN 0 ELSE @,
                !.frpcDeployment = IF "frpcDeployment" \in missing THEN <<>> ELSE @,
                !.publicIP = IF "publicIP" \in missing THEN 0 ELSE @]

\* what the Update u left of the world of the Provision c
MissingOutcome(p0, p, missing, c, u) ==
    [op |-> "UpdateMissing", ports0 |-> p0, ports |-> p,
     missing |-> missing, err |-> u.err, unchanged |-> (u.w = c.w)]

\* Update after the Provision c, on the ports p and without the annotations
\* named in missing
UpdateWithout(p0, p, missing, c) ==
    MissingOutcome(p0, p, missing, c,
                   Update(c.w, ProbeSvc(p, Without(c.ann, missing)), "s1", "none", 0))

\* Update on a provisioned Service that has lost some identity annotations,
\* after its ports changed from p0 to p
ProbeUpdateMissing ==
    /\ probe = NoProbe
    /\ \E p0 \in ProbePortLists \ {<<>>}, p \in ProbePortLists \ {<<>>},
          missing \in (SUBSET IdentityAnnotations) \ {{}} :
         probe' = UpdateWithout(p0, p, missing, Provisioned0(p0))
    /\ UNCHANGED mainVars

\* the port list q is p with ports added
Gained(p, q) ==
    /\ Len(q) > Len(p)
    /\ \A i \in 1..Len(p) : \E j \in 1..Len(q) : q[j] = p[i]

\* C13 (as claimed): a successful Update of a provisioned Service whose
\* ports gained a port leaves the ConfigMap with the configuration of the
\* current ports and the remembered address, a changed pod-template
\* annotation, and machine services of the control entry plus one per port.
C13_UpdateAfterAddedPort ==
    (/\ probe.op = "Update"
     /\ ~probe.second.err
     /\ Gained(probe.ports0, probe.ports))
    => /\ probe.second.data =
            GenerateClientConfig("s1", probe.ports, probe.address, DefaultServerPort)
       /\ \E i \in 1..Len(probe.second.data.proxies) :
             probe.second.data.proxies[i].remotePort = probe.ports[Len(probe.ports)].Port
       /\ probe.second.restartAt # probe.first.restartAt
       /\ \A sv \in probe.second.services :
            /\ Len(sv) = Len(probe.ports) + 1
            /\ sv[1].Port = DefaultServerPort
            /\ \A i \in 1..Len(probe.ports) :
                 sv[i + 1].InternalPort = probe.ports[i].Port
                 /\ sv[i + 1].Port = probe.ports[i].Port

\* C14 (as claimed): an Update of a Service whose ports and address are as
\* they were at the previous Update leaves the pod template as it was.
C14_NoRolloutWithoutChange ==
    (/\ probe.op = "Update"
     /\ ~probe.first.err
     /\ ~probe.second.err
     /\ probe.ports = probe.ports0
     /\ probe.second.data = probe.first.data)
    => probe.second.restartAt = probe.first.restartAt

\* C15 (as claimed): Update on a Service that lacks one of the identity
\* annotations (app, machine id, deployment name, address) returns an error
\* and changes no ConfigMap, Deployment or machine.
C15_UpdateNeedsAnnotations ==
    probe.op = "UpdateMissing" => probe.err /\ probe.unchanged

\* C16: the pass on a provisioned Service returns success after Update,
\* whichever way Update failed: it is neither marked failed nor queued again.
C16_UpdateFailureNotReturned ==
    [][\A o \in Svcs :
         pc[o] = "managerUpdate" /\ pc'[o] # "managerUpdate"
         => /\ lastOp'.op = "Update"
            /\ pc'[o] = "idle"
            /\ lastResult'[o] = "ok"
            /\ everErr'[o] = everErr[o]
            /\ queued' = queued]_vars

\* Update failed at its last call and the pass returned success
C16_Witness ==
    \E o \in Svcs :
        /\ lastOp.op = "Update"
        /\ lastOp.o = o
        /\ lastOp.arg.ann.flyApp # <<>>
        /\ lastOp.out.err
        /\ lastOp.out.at = "UpdateMachine"
        /\ pc[o] = "idle"
        /\ lastResult[o] = "ok"

----------------------------------------------------------------------------
(* Direct calls of the name derivation (name_test.go) *)

\* the namespaces and names of the identities the derivation is called with
ProbeNamespaces == {<<"a">>, <<"a","-","b">>, <<"d">>}
ProbeNames == {<<"a">>, <<"b">>, <<"c">>, <<"b","-","c">>}

\* TestFlyAppNameForService, for two Services: the names derived for the
\* identities (ns1, n1) and (ns2, n2)
ProbeDeriveNames ==
    /\ probe = NoProbe
    /\ \E ns1 \in ProbeNamespaces, n1 \in ProbeNames,
          ns2 \in ProbeNamespaces, n2 \in ProbeNames :
         probe' = [op |-> "DeriveNames",
                   id1 |-> <<ns1, n1>>, id2 |-> <<ns2, n2>>,
                   app1 |-> flyAppNameFor(ns1, n1),
                   app2 |-> flyAppNameFor(ns2, n2),
                   deploy1 |-> frpcDeploymentNameFor(ns1, n1),
                   deploy2 |-> frpcDeploymentNameFor(ns2, n2)]
    /\ UNCHANGED mainVars

\* C17 (as claimed, for the names): two Services of distinct (namespace,
\* name) identities have different derived app names and different derived
\* deployment names.
C17_DistinctIdentitiesDistinctNames ==
    (probe.op = "DeriveNames" /\ probe.id1 # probe.id2)
    => probe.app1 # probe.app2 /\ probe.deploy1 # probe.deploy2

\* a string of n characters c
Repeat(c, n) == [i \in 1..n |-> c]

\* the longest tail of an input of sanitizeName
MaxTail == 3

\* the characters of the tails: a letter, a capital, a dash, a character
\* outside the name characters, a digit
TailChars == {"a", "B", "-", "_", "9"}

\* the heads of the inputs: none, one that a tail of two carries past
\* maxLabelLen, and one whose truncation ends on a dash
Heads ==
    {<<>>, Repeat("a", 62), Repeat("a", 53) \o <<"-">> \o Repeat("a", 8)}

Tails == UNION {[1..k -> TailChars] : k \in 0..MaxTail}

\* TestSanitizeFlyName: sanitizeName on a head followed by a tail
ProbeSanitize ==
    /\ probe = NoProbe
    /\ \E head \in Heads, tail \in Tails :
         probe' = [op |-> "Sanitize", input |-> head \o tail,
                   output |-> sanitizeName(head \o tail)]
    /\ UNCHANGED mainVars

\* the letters and digits of any case
IsAlphanumeric(c) == IsNameChar(ToLowerChar(c)) /\ c # "-"

\* C18: the output of sanitizeName has only characters of [a-z0-9-], at most
\* 63 of them, no dash at either end and no two dashes in a row; an input
\* without a letter or digit gives the empty string.
C18_SanitizedShape ==
    probe.op = "Sanitize"
    => LET out == probe.output
       IN  /\ \A i \in 1..Len(out) : IsNameChar(out[i])
           /\ Len(out) <= maxLabelLen
           /\ Len(out) > 0 => out[1] # "-" /\ out[Len(out)] # "-"
           /\ ~ContainsDashDash(out)
           /\ (\A i \in 1..Len(probe.input) : ~IsAlphanumeric(probe.input[i]))
              => out = <<>>

\* an input of 65 characters with a capital and a trailing dash, cut to 63
C18_Witness ==
    /\ probe.op = "Sanitize"
    /\ Len(probe.input) = 65
    /\ \E i \in 1..Len(probe.input) : probe.input[i] = "B"
    /\ probe.input[65] = "-"
    /\ Len(probe.output) = maxLabelLen
    /\ probe.output[55] = "-"

\* TestSanitizeFlyName_TruncationPreservesUniqueness: two names that share a
\* head of 62 characters and end in two characters of their own
PairHead == Repeat("a", 62)
PairTails == [1..2 -> {"a", "b", "B", "_"}]

\* sanitizeName on the names of the pairs, and whether the name was longer
\* than maxLabelLen once sanitized; computed once
SanitizedPairName ==
    [t \in PairTails |->
        [output |-> sanitizeName(PairHead \o t),
         long |-> Len(sanitized(PairHead \o t)) > maxLabelLen]]

ProbeSanitizePair ==
    /\ probe = NoProbe
    /\ \E t1 \in PairTails, t2 \in PairTails :
         probe' = [op |-> "SanitizePair",
                   input1 |-> PairHead \o t1, input2 |-> PairHead \o t2,
                   output1 |-> SanitizedPairName[t1].output,
                   output2 |-> SanitizedPairName[t2].output,
                   long1 |-> SanitizedPairName[t1].long,
                   long2 |-> SanitizedPairName[t2].long]
    /\ UNCHANGED mainVars

\* where sanitizeName cuts a name that is too long
TruncationBoundary == maxLabelLen - 8 - 1

----------------------------------------------------------------------------
(* Direct calls of frpcResources *)

\* the values of the resource annotations of a direct call
ResourceValues == {"", "50m", "1", "64Mi", "not-a-quantity", "1x"}

\* the annotation maps of the direct calls: any of the four keys, each with
\* any of the values
ResourceAnnotationMaps ==
    UNION {[keys -> ResourceValues] : keys \in SUBSET ResourceAnnotations}

\* frpcResources on a Service with the given resource annotations
ProbeFrpcResources ==
    /\ probe = NoProbe
    /\ \E annotations \in ResourceAnnotationMaps :
         probe' = [op |-> "frpcResources", annotations |-> annotations,
                   out |-> frpcResources(annotations)]
    /\ UNCHANGED mainVars

\* the overrides whose annotation is present, non-empty and unparsable
Unparsable(annotations) ==
    {i \in 1..Len(resourceAnnotationOverrides) :
        LET a == resourceAnnotationOverrides[i].annotation
        IN  /\ a \in DOMAIN annotations
            /\ annotations[a] # ""
            /\ ParseQuantity(annotations[a]).err}

\* C20: when some resource annotation of the map has a non-empty value that
\* is no quantity, frpcResources returns an error that names such an
\* annotation (the first in the order of the overrides) with its raw value.
C20_InvalidOverrideFails ==
    (probe.op = "frpcResources" /\ Unparsable(probe.annotations) # {})
    => /\ probe.out.err
       /\ \E i \in Unparsable(probe.annotations) :
            /\ \A j \in Unparsable(probe.annotations) : i <= j
            /\ probe.out.annotation = resourceAnnotationOverrides[i].annotation
            /\ probe.out.value = probe.annotations[probe.out.annotation]

\* a valid CPU request before an unparsable memory limit: the call fails and
\* names the memory limit
C20_Witness ==
    /\ probe.op = "frpcResources"
    /\ AnnotationFrpcCPURequest \in DOMAIN probe.annotations
    /\ AnnotationFrpcMemoryLimit \in DOMAIN probe.annotations
    /\ probe.annotations[AnnotationFrpcCPURequest] = "50m"
    /\ probe.annotations[AnnotationFrpcMemoryLimit] = "not-a-quantity"
    /\ probe.out.err
    /\ probe.out.annotation = AnnotationFrpcMemoryLimit
    /\ probe.out.value = "not-a-quantity"

----------------------------------------------------------------------------
(* Direct calls of Provision on Services with resource annotations *)

\* what Provision left for a Service with the given resource annotations: its
\* error and the frpc Deployment
ProvisionResourcesOutcome(annotations, r) ==
    [op |-> "ProvisionResources", annotations |-> annotations, err |-> r.err,
     deployment |-> r.w.deployments[FrpcDeploymentNameOf["s1"]]]

\* TestProvision_DefaultFrpcResources, _FrpcResourceAnnotationOverrides and
\* _InvalidResourceAnnotation: Provision on a Service with one port and the
\* given resource annotations
ProbeProvisionResources ==
    /\ probe = NoProbe
    /\ \E annotations \in ResourceAnnotationMaps :
         probe' = ProvisionResourcesOutcome(annotations,
                      Provision(world,
                                ProbeSvc(<<P80>>,
                                         [EmptyAnnotations EXCEPT
                                            !.resources = annotations]),
                                "s1", NoFailure))
    /\ UNCHANGED mainVars

\* C21 (as claimed): Provision on a Service with an unparsable resource
\* annotation returns an error and leaves no frpc Deployment.
C21_InvalidOverrideFailsProvision ==
    (probe.op = "ProvisionResources" /\ Unparsable(probe.annotations) # {})
    => probe.err /\ ~probe.deployment.exists

\* the quantity of a slot: the annotation's when it is there and not empty,
\* the default otherwise
Slot(annotations, annotation, default) ==
    IF annotation \in DOMAIN annotations /\ annotations[annotation] # ""
    THEN ParseQuantity(annotations[annotation]).q
    ELSE default

\* the requirements the tests expect for the given resource annotations
ExpectedResources(annotations) ==
    [Requests |->
        [cpu |-> Slot(annotations, AnnotationFrpcCPURequest, MustParse("10m")),
         memory |-> Slot(annotations, AnnotationFrpcMemoryRequest, MustParse("32Mi"))],
     Limits |->
        [cpu |-> Slot(annotations, AnnotationFrpcCPULimit, NoQuantity),
         memory |-> Slot(annotations, AnnotationFrpcMemoryLimit, MustParse("128Mi"))]]

\* C22 (as claimed): the frpc Deployment that Provision creates for a Service
\* whose resource annotations all parse carries the default requests and
\* limits, each slot replaced by its annotation when that is there and not
\* empty.
C22_DeploymentResources ==
    (probe.op = "ProvisionResources" /\ Unparsable(probe.annotations) = {})
    => /\ ~probe.err
       /\ probe.deployment.exists
       /\ probe.deployment.resources = ExpectedResources(probe.annotations)

----------------------------------------------------------------------------
(* Direct calls of serviceFilter *)

\* the Services of the watch events: managed or not, with one or two ports,
\* with or without a recorded address and another annotation, deleting or
\* not, with no, the recorded or another status address
EventSvcs ==
    {[NoSvc EXCEPT !.exists = TRUE, !.type = t, !.lbClass = c, !.ports = p,
                   !.ann.publicIP = a, !.ann.region = g, !.deleting = d,
                   !.ingress = i] :
        t \in {"LoadBalancer", "ClusterIP"},
        c \in {"", DefaultLoadBalancerClass, "example.com/other"},
        p \in {<<P80>>, <<P80, P443>>},
        a \in {0, 1, 2},
        g \in {"", "lhr"},
        d \in BOOLEAN,
        i \in {<<>>, <<1>>, <<2>>}}

\* the old objects of the update events: what the filter compares of them
OldEventSvcs ==
    {s \in EventSvcs : /\ s.type = "LoadBalancer"
                       /\ s.lbClass = DefaultLoadBalancerClass
                       /\ ~s.deleting
                       /\ s.ingress = <<>>}

EventKinds == {"create", "update", "delete", "generic"}

\* serviceFilter: the answer of the predicate to an event of the kind
serviceFilter(kind, oldSvc, newSvc) ==
    CASE kind = "create" -> CreateFunc(newSvc)
      [] kind = "update" -> UpdateFunc(oldSvc, newSvc)
      [] kind = "delete" -> DeleteFunc(newSvc)
      [] kind = "generic" -> GenericFunc(newSvc)

\* an event of each kind is put to the filter
ProbeFilter ==
    /\ probe = NoProbe
    /\ \E kind \in EventKinds, oldSvc \in OldEventSvcs, newSvc \in EventSvcs :
         /\ kind # "update" => oldSvc.ann = newSvc.ann /\ oldSvc.ports = newSvc.ports
         /\ probe' = [op |-> "Filter", kind |-> kind, oldSvc |-> oldSvc,
                      newSvc |-> newSvc,
                      admitted |-> serviceFilter(kind, oldSvc, newSvc)]
    /\ UNCHANGED mainVars

\* C23: a create or delete event is admitted exactly when its object is
\* managed; an update event exactly when the new object is managed and the
\* ports changed, or an annotation changed, or the deletion timestamp is set,
\* or the status has no ingress, or the recorded public address is not empty
\* and is not the first ingress address; a generic event never.
C23_FilterAdmits ==
    probe.op = "Filter" =>
        /\ probe.kind \in {"create", "delete"}
           => (probe.admitted <=> isManaged(probe.newSvc))
        /\ probe.kind = "update"
           => (probe.admitted <=>
                 /\ isManaged(probe.newSvc)
                 /\ \/ probe.oldSvc.ports # probe.newSvc.ports
                    \/ probe.oldSvc.ann # probe.newSvc.ann
                    \/ probe.newSvc.deleting
                    \/ probe.newSvc.ingress = <<>>
                    \/ /\ probe.newSvc.ann.publicIP # 0
                       /\ Head(probe.newSvc.ingress) # probe.newSvc.ann.publicIP)
        /\ probe.kind = "generic" => ~probe.admitted

\* an update that changes neither ports nor annotations, of a Service that is
\* not deleting and whose status address is not the recorded one, is admitted
C23_Witness ==
    /\ probe.op = "Filter"
    /\ probe.kind = "update"
    /\ probe.admitted
    /\ probe.oldSvc.ports = probe.newSvc.ports
    /\ probe.oldSvc.ann = probe.newSvc.ann
    /\ ~probe.newSvc.deleting
    /\ probe.newSvc.ingress # <<>>

----------------------------------------------------------------------------
(* The reconciler's own writes *)

\* no key waits and no pass runs
Quiescent ==
    /\ queued = {}
    /\ \A o \in Svcs : pc[o] = "idle"

\* the status patch of reconcileCreate and of reconcileUpdate, on a Service
\* that no other writer touched during the pass and nobody asked to delete:
\* the filter drops its update event and the queue stays as it is
StatusPatchQueuesNothing ==
    \A o \in Svcs :
        (/\ pc[o] \in {"patchStatus", "reconcileUpdate"}
         /\ ~stale[o]
         /\ ~svc[o].deleting
         /\ svc'[o].ingress # svc[o].ingress)
        => (/\ svc'[o] = [svc[o] EXCEPT !.ingress = <<svc[o].ann.publicIP>>]
            /\ ~UpdateFunc(svc[o], svc'[o])
            /\ queued' = queued)

\* C24: with fair scheduling and no failing call, once the user's edits are
\* over the passes come to an end: from some point on no key waits and no
\* pass runs (unless a pass met a write conflict with the user's edit); and
\* the update event of the reconciler's own status patch is not queued.
C24_NoReconciliationStorm ==
    /\ <>[](Quiescent \/ \E o \in MainSvcs : everErr[o])
    /\ [][StatusPatchQueuesNothing]_vars

\* the Service was created, provisioned and reconciled again after the
\* annotation write, no pass failed, and nothing is left to do
C24_Witness ==
    /\ Quiescent
    /\ \E o \in MainSvcs :
         /\ Provisioned(o)
         /\ ~everErr[o]
         /\ userOps = 1
         /\ lastOp.op = "Update"
         /\ lastOp.o = o

----------------------------------------------------------------------------
(* Several Services at once *)

\* Every Service of the model may be created; the passes of distinct keys
\* interleave step by step, a key has one pass at a time.  No call is made to
\* fail.
PairNext == \E o \in Svcs : UserStep(o) \/ ReconcileStep(o)

PairSpec == InitLive /\ [][PairNext]_vars

\* the remote resources and the derived cluster objects of identity o
Owned(w, o) ==
    [app |-> FlyAppNameOf[o] \in w.apps,
     machines |-> MachinesOf(w, FlyAppNameOf[o]),
     ips |-> IPsOf(w, FlyAppNameOf[o]),
     deployment |-> w.deployments[FrpcDeploymentNameOf[o]],
     configMap |-> w.configMaps[ConfigMapName(FrpcDeploymentNameOf[o])]]

\* a step of the pass of o leaves the resources of x as they are
LeavesAlone(o, x) ==
    (pc[o] # "idle" /\ pc'[o] # pc[o]) => Owned(world', x) = Owned(world, x)

\* o and x have their own app, instance and address
OwnTunnels(o, x) ==
    (Provisioned(o) /\ Provisioned(x))
    => /\ svc[o].ann.flyApp # svc[x].ann.flyApp
       /\ svc[o].ann.machineID # svc[x].ann.machineID
       /\ svc[o].ann.publicIP # svc[x].ann.publicIP

\* C25 (as claimed): whatever the interleaving of the passes of two distinct
\* Services, a step of the pass of one leaves the remote resources and the
\* derived cluster objects of the other, once provisioned, as they are, and
\* two provisioned Services have distinct apps, instances and addresses.
C25_ConcurrentPassesIsolated ==
    /\ [][\A o \in Svcs : \A x \in Svcs \ {o} :
            Provisioned(x) => LeavesAlone(o, x)]_vars
    /\ [](\A o \in Svcs : \A x \in Svcs \ {o} : OwnTunnels(o, x))

\* the same for the Services whose derived names differ
DistinctNamesIsolated ==
    /\ [][\A o \in Svcs : \A x \in Svcs \ {o} :
            FlyAppNameOf[o] # FlyAppNameOf[x] => LeavesAlone(o, x)]_vars
    /\ [](\A o \in Svcs : \A x \in Svcs \ {o} :
            FlyAppNameOf[o] # FlyAppNameOf[x] => OwnTunnels(o, x))

\* two Services with distinct derived names are provisioned
TwoProvisioned ==
    \E o \in Svcs : \E x \in Svcs \ {o} :
        /\ FlyAppNameOf[o] # FlyAppNameOf[x]
        /\ Provisioned(o)
        /\ Provisioned(x)

----------------------------------------------------------------------------
(* Writes of another writer during a pass *)

\* another writer changed the ports of the Service, and nothing else, since
\* the pass of o fetched it
PortsEditedDuringPass(o) ==
    /\ stale[o]
    /\ svc[o].exists
    /\ svc[o].ports # loc[o].ports
    /\ [svc[o] EXCEPT !.ports = loc[o].ports] = loc[o]

\* C26 (as claimed): when another writer edits the ports of the Service
\* between the re-fetch and the writes of reconcileCreate, and no call is made
\* to fail, the annotation write records the identifiers of the Result and
\* the status patch the address, both on the Service as the other writer left
\* it.
C26_PersistenceToleratesEdit ==
    [][\A o \in MainSvcs :
         (PortsEditedDuringPass(o) /\ pc'[o] # pc[o] /\ failures' = failures)
         => /\ pc[o] = "writeAnnotations"
               => svc'[o] = [svc[o] EXCEPT
                               !.ann = WithResultAnnotations(@, res[o])]
            /\ pc[o] = "patchStatus"
               => svc'[o] = [svc[o] EXCEPT !.ingress = <<res[o].PublicIP>>]]_vars

\* the status patch alone: an edit of the ports between the annotation write
\* and the status patch is kept and the address is recorded
StatusPatchToleratesEdit ==
    [][\A o \in MainSvcs :
         (/\ PortsEditedDuringPass(o)
          /\ pc[o] = "patchStatus"
          /\ pc'[o] # pc[o]
          /\ failures' = failures)
         => svc'[o] = [svc[o] EXCEPT !.ingress = <<res[o].PublicIP>>]]_vars

----------------------------------------------------------------------------
(* One instance and one address per Service *)

\* at most one instance and one address exist in the app of o
AtMostOneTunnel(o) ==
    /\ Cardinality(MachinesOf(world, FlyAppNameOf[o])) <= 1
    /\ Cardinality(IPsOf(world, FlyAppNameOf[o])) <= 1

AddedInstances(o) ==
    Cardinality(MachinesOf(world', FlyAppNameOf[o]))
        - Cardinality(MachinesOf(world, FlyAppNameOf[o]))

AddedAddresses(o) ==
    Cardinality(IPsOf(world', FlyAppNameOf[o]))
        - Cardinality(IPsOf(world, FlyAppNameOf[o]))

\* a step adds at most one instance and one address to the app of o, and
\* only as the Provision of a pass that found no recorded app
OnlyProvisionAdds(o) ==
    /\ AddedInstances(o) <= 1
    /\ AddedAddresses(o) <= 1
    /\ (AddedInstances(o) = 1 \/ AddedAddresses(o) = 1)
       => (/\ pc[o] = "reconcileCreate"
           /\ loc[o].ann.flyApp = <<>>
           /\ lastOp'.op = "Provision")

----------------------------------------------------------------------------
(* The finalizer comes first *)

\* the pass of o ends with an error and has written nothing in this step
EndsWithError(o) ==
    /\ pc'[o] = "idle"
    /\ lastResult'[o] = "err"
    /\ svc' = svc
    /\ world' = world

\* the step of the pass of o that calls Provision or Update
CallsManager(o) ==
    pc[o] \in {"reconcileCreate", "managerUpdate"} /\ pc'[o] # pc[o]

\* the pass of o gets to reconcileCreate or reconcileUpdate
EntersCreateOrUpdate(o) ==
    pc'[o] \in {"reconcileCreate", "reconcileUpdate"} /\ pc'[o] # pc[o]

\* C28: Provision and Update are called only on a Service that has the
\* finalizer, in the cluster and in the pass's copy.  A pass that finds a
\* managed Service without the finalizer writes the finalizer and fetches the
\* Service again before it gets to Provision or Update; when the finalizer
\* write or the re-fetch fails, the pass ends with an error and calls
\* neither.
C28_FinalizerBeforeResources ==
    [][\A o \in Svcs :
         /\ CallsManager(o)
            => (svc[o].exists /\ svc[o].finalizer /\ loc[o].finalizer)
         /\ (pc[o] = "idle" /\ pc'[o] # "idle" /\ ~svc[o].deleting
             /\ ~svc[o].finalizer)
            => pc'[o] = "addFinalizer"
         /\ (pc[o] = "addFinalizer" /\ pc'[o] # pc[o])
            => (/\ world' = world
                /\ lastOp' = lastOp
                /\ \/ pc'[o] = "refetch" /\ svc'[o].finalizer
                   \/ EndsWithError(o))
         /\ (pc[o] = "refetch" /\ pc'[o] # pc[o])
            => (/\ world' = world
                /\ lastOp' = lastOp
                /\ \/ EntersCreateOrUpdate(o) /\ loc'[o] = svc[o]
                   \/ EndsWithError(o))
         /\ EntersCreateOrUpdate(o)
            => (pc[o] = "refetch" \/ (pc[o] = "idle" /\ svc[o].finalizer))]_vars

\* Provision was called in the first pass on a Service, after the finalizer
\* write and the re-fetch
C28_Witness ==
    \E o \in MainSvcs :
        /\ pc[o] = "refetchCreated"
        /\ lastOp.op = "Provision"
        /\ lastOp.arg.finalizer
        /\ svc[o].finalizer
        /\ lastResult[o] = "none"

----------------------------------------------------------------------------
(* Passes on a provisioned Service *)

\* the numbers of apps, instances and addresses at the provider
RemoteCounts(w) ==
    [apps |-> Cardinality(w.apps), machines |-> Cardinality(w.machines),
     ips |-> Cardinality(w.ips)]

\* a step of a pass of o whose copy of the Service records an app and has no
\* deletion timestamp
StepOnProvisioned(o) ==
    /\ pc[o] # "idle"
    /\ pc'[o] # pc[o]
    /\ loc[o].ann.flyApp # <<>>
    /\ ~loc[o].deleting

\* C29: a pass that fetches a managed Service with a recorded app and no
\* deletion timestamp goes to reconcileUpdate; the steps of a pass whose copy
\* records an app never get to reconcileCreate and never call Provision, the
\* call of the Manager they make is Update, and they leave the numbers of
\* apps, instances and addresses as they are.
C29_RedeliveryOnlyUpdates ==
    [][\A o \in Svcs :
         /\ (/\ pc[o] = "idle"
             /\ pc'[o] # "idle"
             /\ svc[o].ann.flyApp # <<>>
             /\ ~svc[o].deleting)
            => pc'[o] = "reconcileUpdate"
         /\ StepOnProvisioned(o)
            => (/\ pc[o] \in {"patchStatus", "reconcileUpdate", "managerUpdate"}
                /\ pc'[o] # "reconcileCreate"
                /\ pc[o] = "managerUpdate"
                   => (lastOp'.op = "Update" /\ lastOp'.o = o)
                /\ lastOp'.op = "Provision" => lastOp' = lastOp
                /\ RemoteCounts(world') = RemoteCounts(world))]_vars

\* a provisioned Service was delivered again and the pass called Update with
\* the ports of the Service
C29_Witness ==
    \E o \in MainSvcs :
        /\ Provisioned(o)
        /\ pc[o] = "idle"
        /\ lastResult[o] = "ok"
        /\ lastOp.op = "Update"
        /\ lastOp.o = o
        /\ lastOp.arg.ports = svc[o].ports
        /\ RemoteCounts(world) = [apps |-> 1, machines |-> 1, ips |-> 1]

----------------------------------------------------------------------------
(* The status of a provisioned Service *)

\* Another writer of the status replaces the ingress list of the Service: by
\* the empty list, or by one entry without an IP (0: the entry names a host).
StatusOverwritten(o) ==
    /\ userOps < MaxUserOps
    /\ svc[o].exists
    /\ \E ingress \in {<<>>, <<0>>} \ {svc[o].ingress} :
         LET new == [svc[o] EXCEPT !.ingress = ingress]
         IN  /\ svc' = [svc EXCEPT ![o] = new]
             /\ queued' = IF UpdateFunc(svc[o], new) THEN queued \cup {o} ELSE queued
    /\ userOps' = userOps + 1
    /\ Outdate(o)
    /\ UNCHANGED <<world, pc, loc, res, now, failures, lastOp, lastResult,
                   wasManaged, provisioned, probe, everErr>>

DriftNext ==
    \E o \in MainSvcs : UserStep(o) \/ StatusOverwritten(o) \/ ReconcileStep(o)

\* the run without failing calls in which the status has another writer
DriftSpec == InitLive /\ [][DriftNext]_vars

\* the status in the pass's copy is not the recorded address
StatusLacksRecordedAddress(s) ==
    s.ingress = <<>> \/ Head(s.ingress) # s.ann.publicIP

\* C30: the first step of reconcileUpdate patches the status to the recorded
\* public address when the pass's copy has no ingress or another first
\* address, and writes nothing to the Service when the copy has the recorded
\* address; Update is called after that step only, and not at all when the
\* patch fails.
C30_StatusPatchedBeforeUpdate ==
    [][\A o \in MainSvcs :
         /\ (pc[o] = "reconcileUpdate" /\ pc'[o] # pc[o])
            => (/\ world' = world
                /\ lastOp' = lastOp
                /\ IF StatusLacksRecordedAddress(loc[o])
                   THEN \/ /\ pc'[o] = "managerUpdate"
                           /\ svc'[o] = [svc[o] EXCEPT
                                           !.ingress = <<loc[o].ann.publicIP>>]
                        \/ EndsWithError(o)
                   ELSE pc'[o] = "managerUpdate" /\ svc' = svc)
         /\ (pc'[o] = "managerUpdate" /\ pc'[o] # pc[o])
            => pc[o] = "reconcileUpdate"
         /\ (lastOp'.op = "Update" /\ lastOp' # lastOp)
            => pc[lastOp'.o] = "managerUpdate"]_vars

\* the status of a provisioned Service was overwritten with an entry that is
\* not the recorded address, and a pass has fetched the Service and is at
\* reconcileUpdate with that status
C30_Witness ==
    \E o \in MainSvcs :
        /\ pc[o] = "reconcileUpdate"
        /\ loc[o].ann.publicIP # 0
        /\ loc[o].ingress = <<0>>
        /\ svc[o] = loc[o]

----------------------------------------------------------------------------
(* The order of the forward steps of Provision *)

\* the position of the step in ProvisionSteps; one past the last for "none"
StepIndex(step) ==
    IF step = "none" THEN Len(ProvisionSteps) + 1
    ELSE CHOOSE i \in 1..Len(ProvisionSteps) : ProvisionSteps[i] = step

\* every compensating call Provision can make
AllRollbackCalls == {"ReleaseIPAddress", "DeleteMachine", "DeleteApp"}

\* what a direct call of Provision that met the scenario sc left
FailingOutcome(ports, sc, r) ==
    [op |-> "ProvisionFailing", ports |-> ports, failAt |-> sc.failAt,
     rb |-> sc.rb, err |-> r.err, failedAt |-> r.failedAt,
     apps |-> r.w.apps, machines |-> r.w.machines, ips |-> r.w.ips,
     configMap |-> r.w.configMaps[ConfigMapName(FrpcDeploymentNameOf["s1"])],
     deployment |-> r.w.deployments[FrpcDeploymentNameOf["s1"]]]

\* Provision with one forward step failing (or none) and some of the
\* compensating calls failing
ProbeProvisionFailing ==
    /\ probe = NoProbe
    /\ \E ports \in ProbePortLists, failAt \in Range(ProvisionSteps) \cup {"none"},
          rb \in SUBSET AllRollbackCalls :
         /\ rb \subseteq Range(RollbackCalls(failAt))
         /\ probe' = FailingOutcome(ports, [failAt |-> failAt, rb |-> rb, dupOk |-> TRUE],
                        Provision(world, ProbeSvc(ports, EmptyAnnotations), "s1",
                                  [failAt |-> failAt, rb |-> rb, dupOk |-> TRUE]))
    /\ UNCHANGED mainVars

\* C31: Provision makes its steps in a fixed order and stops at the first
\* that fails: what a call leaves was made by the steps before the failed
\* one (the app; the machine, in that app; its start; the address, in that
\* app; the ConfigMap, with that address; the Deployment) and by no later
\* step, and when no compensating call succeeds all of that is left.
C31_StepsInOrder ==
    probe.op = "ProvisionFailing"
    => LET k == StepIndex(probe.failAt)
           kept == probe.rb = Range(RollbackCalls(probe.failAt))
       IN  /\ probe.failedAt = probe.failAt
           /\ probe.err <=> k <= Len(ProvisionSteps)
           /\ probe.apps # {} => k > 1
           /\ probe.machines # {} => k > 2
           /\ (\E m \in probe.machines : m.started) => k > 3
           /\ probe.ips # {} => k > 4
           /\ probe.configMap.exists => k > 5
           /\ probe.deployment.exists => k > 6
           /\ \A m \in probe.machines : m.app \in probe.apps
           /\ \A a \in probe.ips : a.app \in probe.apps
           /\ probe.configMap.exists
              => \E a \in probe.ips \cup {[address |-> AddressOf(1)]} :
                    probe.configMap.data.serverAddr = a.address
           /\ kept /\ k > 1 => probe.apps = {FlyAppNameOf["s1"]}
           /\ kept /\ k > 2 => Cardinality(probe.machines) = 1
           /\ kept /\ k > 3 => \A m \in probe.machines : m.started
           /\ kept /\ k > 4 => Cardinality(probe.ips) = 1

\* the address allocation failed after the machine started and no
\* compensating call succeeded: a started machine, no address
C31_Witness ==
    /\ probe.op = "ProvisionFailing"
    /\ probe.failAt = "AllocateDedicatedIPv4"
    /\ probe.rb = {"DeleteMachine", "DeleteApp"}
    /\ \E m \in probe.machines : m.started
    /\ probe.ips = {}
    /\ ~probe.configMap.exists

----------------------------------------------------------------------------
(* The steps of Teardown *)

\* what the Teardown t, in which the calls F failed, left
TeardownOutcome(ports, F, t) ==
    [op |-> "Teardown", ports |-> ports, F |-> F, err |-> t.err,
     apps |-> t.w.apps, machines |-> t.w.machines, ips |-> t.w.ips,
     configMap |-> t.w.configMaps[ConfigMapName(FrpcDeploymentNameOf["s1"])],
     deployment |-> t.w.deployments[FrpcDeploymentNameOf["s1"]]]

\* Teardown, the calls F failing, of what the Provision c left
TeardownAfter(ports, F, c) ==
    TeardownOutcome(ports, F, Teardown(c.w, ProbeSvc(ports, c.ann), F))

\* TestTeardown: Provision, then Teardown on the annotated Service, some of
\* its calls failing
ProbeTeardown ==
    /\ probe = NoProbe
    /\ \E ports \in ProbePortLists, F \in SUBSET Range(TeardownCalls) :
         probe' = TeardownAfter(ports, F, Provisioned0(ports))
    /\ UNCHANGED mainVars

\* C32 (as claimed): Teardown attempts every step whatever failed before
\* it: a step whose own call does not fail has been made, so that its
\* object is gone afterwards, the ConfigMap after a failed Deployment
\* deletion included; and Teardown returns no error.
C32_TeardownAttemptsEveryStep ==
    probe.op = "Teardown"
    => /\ ~probe.err
       /\ "DeleteDeployment" \notin probe.F => ~probe.deployment.exists
       /\ "DeleteConfigMap" \notin probe.F => ~probe.configMap.exists
       /\ "ReleaseIPAddress" \notin probe.F => probe.ips = {}
       /\ "DeleteMachine" \notin probe.F => probe.machines = {}
       /\ "DeleteApp" \notin probe.F => probe.apps = {}

----------------------------------------------------------------------------
(* deployFrpc on objects that exist *)

\* the world w without frpc ConfigMaps and Deployments
Cleared(w) ==
    [w EXCEPT !.configMaps = [n \in ConfigMapNames |-> NoConfigMap],
              !.deployments = [n \in DeployNames |-> NoDeployment]]

\* the frpc ConfigMap and Deployment of "s1" in the world w
ClusterObjects(w) ==
    [configMap |-> w.configMaps[ConfigMapName(FrpcDeploymentNameOf["s1"])],
     deployment |-> w.deployments[FrpcDeploymentNameOf["s1"]]]

\* what Provision left (again) where the objects before were left, next to
\* what it leaves (fresh) where there were none
ReprovisionOutcome(ports, before, again, fresh) ==
    [op |-> "Reprovision", ports |-> ports, before |-> before,
     err |-> again.err, freshErr |-> fresh.err,
     after |-> ClusterObjects(again.w), fresh |-> ClusterObjects(fresh.w),
     address |-> again.result.PublicIP]

\* Provision with the ports p in the world w, and in w without its frpc
\* objects
ProvisionAgain(p, w) ==
    ReprovisionOutcome(p, ClusterObjects(w),
        Provision(w, ProbeSvc(p, EmptyAnnotations), "s1", NoFailure),
        Provision(Cleared(w), ProbeSvc(p, EmptyAnnotations), "s1", NoFailure))

\* Teardown, its calls F failing, of what the Update u left
TornDown(p0, p, F, c, u) ==
    ProvisionAgain(p, Teardown(u.w, ProbeSvc(p0, c.ann), F).w)

\* the Update at the reading t of what the Provision c left
UpdatedThenTornDown(p0, p, t, F, c) ==
    TornDown(p0, p, F, c, Update(c.w, ProbeSvc(p0, c.ann), "s1", "none", t))

\* Provision with the ports p0, an Update, a Teardown that left the
\* Deployment and the ConfigMap (F = {DeleteDeployment}), the ConfigMap
\* alone (F = {DeleteConfigMap}) or neither, then Provision with the ports p
ProbeReprovision ==
    /\ probe = NoProbe
    /\ \E p0 \in ProbePortLists, p \in ProbePortLists, t \in 0..MaxClock,
          F \in {{}, {"DeleteDeployment"}, {"DeleteConfigMap"}} :
         probe' = UpdatedThenTornDown(p0, p, t, F, Provisioned0(p0))
    /\ UNCHANGED mainVars

\* C33: Provision where the ConfigMap or the Deployment of the derived name
\* exists does not fail, and leaves the ConfigMap data and the Deployment
\* spec that it leaves where neither existed: the configuration of the
\* current ports and the allocated address, and the fresh pod template.
C33_CreateOrUpdate ==
    probe.op = "Reprovision"
    => /\ ~probe.err
       /\ ~probe.freshErr
       /\ probe.after = probe.fresh
       /\ probe.after.configMap.exists
       /\ probe.after.deployment.exists
       /\ probe.after.configMap.data =
            GenerateClientConfig("s1", probe.ports, probe.address, DefaultServerPort)

\* both objects existed, with other data and a restarted pod template
C33_Witness ==
    /\ probe.op = "Reprovision"
    /\ probe.before.configMap.exists
    /\ probe.before.deployment.exists
    /\ probe.before.deployment.restartAt # probe.after.deployment.restartAt
    /\ probe.before.configMap.data.proxies # probe.after.configMap.data.proxies
    /\ ~probe.err

----------------------------------------------------------------------------
(* Region and size of the machine after Update *)

\* the region and size overrides of the direct calls ("": none)
ProbeRegions == {"", "lhr"}
ProbeSizes == {"", "shared-cpu-2x", "performance-1x"}

\* the annotations ann with the region and size overrides
WithOverrides(ann, region, size) ==
    [ann EXCEPT !.region = region, !.size = size]

\* what the Update u on the Service s left of the machine
OverrideOutcome(s0, s, u) ==
    [op |-> "UpdateOverrides", before |-> s0, svc |-> s,
     err |-> u.err, machines |-> u.w.machines]

\* Update, on the Service s, of what the Provision c on the Service s0 left
UpdateOverridden(s0, s, c) ==
    OverrideOutcome(s0, s, Update(c.w, s, "s1", "none", 0))

\* the Service with the overrides (region, size) and the annotations of the
\* result of the Provision c
Reannotated(s0, region, size, c) ==
    UpdateOverridden(s0,
        [s0 EXCEPT !.ann = WithOverrides(
                               WithResultAnnotations(s0.ann, c.result), region, size)],
        c)

\* Provision on the Service s0, then Update after its overrides changed
ProvisionThenOverride(s0, region, size) ==
    Reannotated(s0, region, size, Provision(world, s0, "s1", NoFailure))

\* TestProvision_RegionOverride, continued: Provision with the overrides
\* (r0, z0), then Update with the overrides (r1, z1)
ProbeUpdateOverrides ==
    /\ probe = NoProbe
    /\ \E r0 \in ProbeRegions, z0 \in ProbeSizes, r1 \in ProbeRegions,
          z1 \in ProbeSizes, ports \in {<<P80>>, <<P80, P443>>} :
         probe' = ProvisionThenOverride(
                      ProbeSvc(ports, WithOverrides(EmptyAnnotations, r0, z0)), r1, z1)
    /\ UNCHANGED mainVars

\* C34 (as claimed): after a successful Update the machine's region and
\* size are those selected for the Service now (the override annotation when
\* not empty, the operator's default otherwise), as Provision selects them.
C34_UpdateReconcilesRegionAndSize ==
    (probe.op = "UpdateOverrides" /\ ~probe.err)
    => \A m \in probe.machines :
          /\ m.region = RegionFor(probe.svc)
          /\ m.guest = GuestFor(probe.svc)

----------------------------------------------------------------------------
(* A failing Update *)

\* what the failing Update u2 left, next to what the Update u1 before it left
FailingUpdateOutcome(p0, p, failAt, u1, u2) ==
    [op |-> "UpdateFailing", ports0 |-> p0, ports |-> p, failAt |-> failAt,
     err |-> u2.err, at |-> u2.at,
     before |-> Observed(u1), after |-> Observed(u2),
     machinesBefore |-> u1.w.machines, machinesAfter |-> u2.w.machines]

\* the Update with the ports p at the reading t, its call failAt failing,
\* after the Update u1
UpdateFailing(p0, p, failAt, t, c, u1) ==
    FailingUpdateOutcome(p0, p, failAt, u1,
                         Update(u1.w, ProbeSvc(p, c.ann), "s1", failAt, t))

\* the Update of the pass that follows the Provision c, then the failing one
UpdateThenFailing(p0, p, failAt, t, c) ==
    UpdateFailing(p0, p, failAt, t, c,
                  Update(c.w, ProbeSvc(p0, c.ann), "s1", "none", 0))

\* Provision with the ports p0, the Update of the pass that follows, then
\* an Update with the ports p in which one call fails
ProbeUpdateFailing ==
    /\ probe = NoProbe
    /\ \E p0 \in ProbePortLists \ {<<>>}, p \in ProbePortLists \ {<<>>},
          failAt \in Range(UpdateCalls), t \in 0..MaxClock :
         probe' = UpdateThenFailing(p0, p, failAt, t, Provisioned0(p0))
    /\ UNCHANGED mainVars

\* C35 (as claimed): an Update that fails, at whichever of its steps, leaves
\* the ConfigMap content, the Deployment's pod template and the machine's
\* configuration as they were before the call.
C35_FailedUpdateKeepsPriorConfiguration ==
    (probe.op = "UpdateFailing" /\ probe.err)
    => /\ probe.after.data = probe.before.data
       /\ probe.after.restartAt = probe.before.restartAt
       /\ probe.machinesAfter = probe.machinesBefore

----------------------------------------------------------------------------
(* Retry after a failed Update *)

\* the reconciler with failing calls, its steps scheduled fairly; the
\* user's steps are not: no further event need arrive
RetrySpec ==
    Init /\ [][Next]_vars /\ \A o \in MainSvcs : WF_vars(ReconcileStep(o))

\* the last pass on o ended after an Update that failed, and the Service is
\* still managed and not being deleted
UpdateFailedInLastPass(o) ==
    /\ lastOp.op = "Update"
    /\ lastOp.o = o
    /\ lastOp.out.err
    /\ pc[o] = "idle"
    /\ svc[o].exists
    /\ isManaged(svc[o])
    /\ ~svc[o].deleting

\* C36 (as claimed): after a pass in which Update failed, the reconciler
\* comes to call Update for the Service again, whether or not another
\* event for it arrives.
C36_FailedUpdateRetried ==
    \A o \in MainSvcs : UpdateFailedInLastPass(o) ~> (pc[o] = "managerUpdate")

----------------------------------------------------------------------------
(* The status address and the annotations *)

\* C37: in every state reached by the reconciler's writes and the user's
\* creation, port and type edits and deletion, a Service whose status
\* carries an ingress address has non-empty fly-app and public-ip
\* annotations, and the address is that of the public-ip annotation.
C37_StatusAddressIsRecorded ==
    \A o \in Svcs :
        (svc[o].exists /\ svc[o].ingress # <<>>)
        => /\ svc[o].ann.flyApp # <<>>
           /\ svc[o].ann.publicIP # 0
           /\ svc[o].ingress = <<svc[o].ann.publicIP>>

\* the status patched by reconcileUpdate, in a pass after the one that
\* wrote the annotations and failed to patch the status
C37_Witness ==
    \E o \in Svcs :
        /\ pc[o] = "managerUpdate"
        /\ svc[o].ingress # <<>>
        /\ svc[o].ingress = <<svc[o].ann.publicIP>>
        /\ failures > 0

----------------------------------------------------------------------------
(* Deletion of a Service that is no longer managed *)

\* the user deletes a Service that carries the finalizer and was changed to
\* another type: it gets its deletion timestamp; the update event is one
\* of a Service that is not managed
UserDeleteUnmanaged(o) ==
    /\ svc[o].exists
    /\ svc[o].finalizer
    /\ ~svc[o].deleting
    /\ ~isManaged(svc[o])
    /\ LET new == [svc[o] EXCEPT !.deleting = TRUE]
       IN  /\ svc' = [svc EXCEPT ![o] = new]
           /\ queued' = IF UpdateFunc(svc[o], new) THEN queued \cup {o} ELSE queued
    /\ Outdate(o)
    /\ UNCHANGED <<world, pc, loc, res, now, failures, userOps, lastOp,
                   lastResult, wasManaged, provisioned, probe, everErr>>

FinalizeNext ==
    \/ Next
    \/ \E o \in MainSvcs : UserDeleteUnmanaged(o)

\* no failing call, the reconciler's steps scheduled fairly
FinalizeSpec ==
    InitLive /\ [][FinalizeNext]_vars /\ \A o \in MainSvcs : WF_vars(ReconcileStep(o))

\* C38 (as claimed): with fair scheduling, a Service that carries the
\* finalizer and a deletion timestamp comes to have the finalizer removed,
\* also when it was changed to another type or class after the finalizer was
\* added.
C38_FinalizerEventuallyRemoved ==
    \A o \in MainSvcs :
        (svc[o].exists /\ svc[o].finalizer /\ svc[o].deleting)
        ~> ~(svc[o].exists /\ svc[o].finalizer)

----------------------------------------------------------------------------
(* What a pass created and what the annotations record *)

\* the step ends the pass on o
PassEnds(o) == pc[o] # "idle" /\ pc'[o] = "idle"

\* the instances, addresses and apps that the pass ending with this step
\* created and leaves: those the step itself adds, and those of the result
\* of the pass's Provision
MadeMachines(o) ==
    ({m.id : m \in world'.machines} \ {m.id : m \in world.machines})
    \cup {m.id : m \in {x \in world'.machines : x.id = res[o].MachineID}}

MadeIPs(o) ==
    ({a.id : a \in world'.ips} \ {a.id : a \in world.ips})
    \cup {a.id : a \in {x \in world'.ips : x.id = res[o].IPID}}

MadeApps(o) ==
    (world'.apps \ world.apps)
    \cup (IF lastOp.op = "Provision" /\ lastOp.o = o /\ lastOp.preEmpty
          THEN {res[o].FlyApp} \cap world'.apps
          ELSE {})

\* the pass leaves something it created that the annotations do not record
LeavesUnrecorded(o) ==
    \/ MadeMachines(o) \ {svc'[o].ann.machineID} # {}
    \/ MadeIPs(o) \ {svc'[o].ann.ipID} # {}
    \/ MadeApps(o) \ {svc'[o].ann.flyApp} # {}

\* C39 (as claimed): no pass ends, with success or with an error, leaving an
\* app, instance or address that it created and that the annotations of
\* the Service do not record.
C39_NoUnrecordedResources ==
    [][\A o \in MainSvcs : PassEnds(o) => ~LeavesUnrecorded(o)]_vars

\* what the pass created is in the app of the derived name
MadeInDerivedApp(o) ==
    /\ MadeApps(o) \subseteq {FlyAppNameOf[o]}
    /\ \A m \in world'.machines : m.id \in MadeMachines(o) => m.app = FlyAppNameOf[o]
    /\ \A a \in world'.ips : a.id \in MadeIPs(o) => a.app = FlyAppNameOf[o]

\* C39 (amended): a pass that ends leaving something it created unrecorded
\* ends with an error, either of Provision whose compensating calls failed,
\* or of the re-fetch or the annotation write after Provision; what it
\* leaves is in the app of the Service's derived name.  A pass that ends
\* with success, or with a failed status patch, leaves nothing unrecorded.
C39_UnrecordedOnlyAfterError ==
    [][\A o \in MainSvcs :
         (PassEnds(o) /\ LeavesUnrecorded(o))
         => /\ lastResult'[o] = "err"
            /\ \/ /\ pc[o] = "reconcileCreate"
                  /\ lastOp'.out.err
                  /\ lastOp'.out.rollbackErr
               \/ pc[o] \in {"refetchCreated", "writeAnnotations"}
            /\ MadeInDerivedApp(o)]_vars

\* Provision succeeded, the pass ended with an error, and its instance
\* exists while the Service records none
C39_Witness ==
    \E o \in MainSvcs :
        /\ pc[o] = "idle"
        /\ lastResult[o] = "err"
        /\ lastOp.op = "Provision"
        /\ lastOp.o = o
        /\ ~lastOp.out.err
        /\ svc[o].exists
        /\ svc[o].ann.machineID = 0
        /\ \E m \in world.machines : m.id = lastOp.out.result.MachineID

----------------------------------------------------------------------------
(* The protocol of the machine's forwarding entries *)

\* the services of the machines that Provision (c) and then Update (u) left
ForwardingOutcome(ports, c, u) ==
    [op |-> "Forwarding", ports |-> ports, err |-> u.err,
     provisioned |-> {m.services : m \in c.w.machines},
     updated |-> {m.services : m \in u.w.machines}]

\* the Update, with the same ports, of what the Provision c left
UpdateSamePorts(ports, c) ==
    ForwardingOutcome(ports, c, Update(c.w, ProbeSvc(ports, c.ann), "s1", "none", 0))

\* Provision and then Update on a Service with TCP and UDP ports
ProbeForwarding ==
    /\ probe = NoProbe
    /\ \E ports \in ProbePortLists : probe' = UpdateSamePorts(ports, Provisioned0(ports))
    /\ UNCHANGED mainVars

\* the protocol of a machine service for a Service port's protocol
TransportOf(protocol) == IF protocol = "UDP" THEN "udp" ELSE "tcp"

\* C40 (as claimed): the forwarding entry that Provision and Update build
\* for a declared port carries the port's declared protocol, TCP or UDP,
\* and both build the same entries for the same port list.
C40_ForwardingCarriesProtocol ==
    probe.op = "Forwarding"
    => /\ ~probe.err
       /\ probe.provisioned = probe.updated
       /\ \A sv \in probe.provisioned \cup probe.updated :
            /\ Len(sv) = Len(probe.ports) + 1
            /\ \A i \in 1..Len(probe.ports) :
                 /\ sv[i + 1].Port = probe.ports[i].Port
                 /\ sv[i + 1].Protocol = TransportOf(probe.ports[i].Protocol)

FnNext ==
    \/ ProbeProvision
    \/ ProbeUpdate
    \/ ProbeUpdateMissing
    \/ ProbeDeriveNames
    \/ ProbeSanitize
    \/ ProbeSanitizePair
    \/ ProbeFrpcResources
    \/ ProbeProvisionResources
    \/ ProbeFilter
    \/ ProbeProvisionFailing
    \/ ProbeTeardown
    \/ ProbeReprovision
    \/ ProbeUpdateOverrides
    \/ ProbeUpdateFailing
    \/ ProbeForwarding

FnSpec == Init /\ [][FnNext]_vars

====
